---- MODULE Spec2Model ----
(***************************************************************************)
(* Model of `theia policy-recommendation run` (policyRecommendationRunCmd  *)
(* RunE): flag validation, job-argument encoding, SparkApplication build,  *)
(* submission, the wait.Poll status loop and the result retrieval.         *)
(*                                                                         *)
(* Go strings are TLA+ strings; a Go error is its message text and a nil   *)
(* error is NilErr.  fmt.Errorf / strconv / time.Parse / regexp / json are *)
(* computed character by character on those strings.                       *)
(***************************************************************************)
EXTENDS Integers, Sequences, FiniteSets, TLC

VARIABLES
    flags,             \* [inv -> the cobra flag values of the invocation]
    pc,                \* [inv -> position of the invocation inside RunE]
    recoJobArgs,       \* [inv -> the argument list built so far]
    sparkResourceArgs, \* [inv -> SparkResourceArgs filled by validation]
    checked,           \* [inv -> names of the validation checks evaluated, in order]
    recommendationID,  \* [inv -> uuid of the job, NoID before line 279]
    application,       \* [inv -> the SparkApplication built, NoApp before line 281]
    err,               \* [inv -> the error RunE returned, NilErr if none]
    observed,          \* [inv -> the states the status queries returned, in order]
    calls,             \* [inv -> the requests sent to the control plane / store]
    elapsed,           \* [inv -> seconds spent inside wait.Poll]
    pollErr,           \* [inv -> what wait.Poll returned, Pending until it returns]
    stdout,            \* [inv -> what was printed, in order]
    files,             \* [inv -> contents written to the --file path, in order]
    retrieved,         \* [inv -> artifacts the result store returned for the job, in order]
    tunnel,            \* [inv -> the port forwarding to the result store: none, open, released]
    cluster,           \* the SparkApplications the control plane holds
    FakeBuckets,       \* the names of the buckets the fake S3 client holds
    FakeQueue,         \* the message bodies the fake SQS client holds, in order
    queueName,         \* the queue name the fake SQS queue was initialised for
    buffer,            \* the buffer the tests capture the log and the output in
    made,              \* the fakes a test has initialised: FakeBuckets, FakeQueue
    lastCall           \* the snowflake command run last: arguments, state before, result

runVars == <<flags, pc, recoJobArgs, sparkResourceArgs, checked, recommendationID,
             application, err, observed, calls, elapsed, pollErr, stdout, files, retrieved,
             tunnel, cluster>>

awsVars == <<FakeBuckets, FakeQueue, queueName, buffer, made, lastCall>>

vars == <<runVars, awsVars>>

Invocations == {"inv1", "inv2"}

-----------------------------------------------------------------------------
(* Strings *)

NilErr == "<nil>"

\* The value of a result that a call still running has not returned.
Pending == "<pending>"
NoID == ""

Char(s, i) == SubSeq(s, i, i)

Digits == {"0", "1", "2", "3", "4", "5", "6", "7", "8", "9"}

IsDigit(s, i) == i <= Len(s) /\ Char(s, i) \in Digits

DigitVal(c) ==
    CASE c = "0" -> 0 [] c = "1" -> 1 [] c = "2" -> 2 [] c = "3" -> 3
      [] c = "4" -> 4 [] c = "5" -> 5 [] c = "6" -> 6 [] c = "7" -> 7
      [] c = "8" -> 8 [] c = "9" -> 9

Contains(s, sub) ==
    \E i \in 1..(Len(s) - Len(sub) + 1) : SubSeq(s, i, i + Len(sub) - 1) = sub

RECURSIVE ItoaNat(_)
ItoaNat(n) ==
    IF n < 10 THEN Char("0123456789", n + 1)
    ELSE ItoaNat(n \div 10) \o Char("0123456789", (n % 10) + 1)

\* strconv.Itoa
Itoa(n) == IF n < 0 THEN "-" \o ItoaNat(0 - n) ELSE ItoaNat(n)

\* strconv.FormatBool
FormatBool(b) == IF b THEN "true" ELSE "false"

-----------------------------------------------------------------------------
(* time.Parse("2006-01-02 15:04:05", s) and time.Time.After *)

\* A parsed number: getnum(s, fixed) of package time, reading at position i.
GetNum(s, i, fixed) ==
    IF ~IsDigit(s, i) THEN [ok |-> FALSE, val |-> 0, next |-> i]
    ELSE IF ~IsDigit(s, i + 1)
         THEN [ok |-> ~fixed, val |-> DigitVal(Char(s, i)), next |-> i + 1]
         ELSE [ok |-> TRUE,
               val |-> DigitVal(Char(s, i)) * 10 + DigitVal(Char(s, i + 1)),
               next |-> i + 2]

\* The four-digit year of the layout element "2006".
GetYear(s, i) ==
    IF i + 3 <= Len(s) /\ \A k \in i..(i + 3) : IsDigit(s, k)
    THEN [ok |-> TRUE,
          val |-> DigitVal(Char(s, i)) * 1000 + DigitVal(Char(s, i + 1)) * 100
                  + DigitVal(Char(s, i + 2)) * 10 + DigitVal(Char(s, i + 3)),
          next |-> i + 4]
    ELSE [ok |-> FALSE, val |-> 0, next |-> i]

\* A literal separator of the layout at position i.
Lit(s, i, c) == i <= Len(s) /\ Char(s, i) = c

IsLeap(y) == y % 4 = 0 /\ (y % 100 # 0 \/ y % 400 = 0)

DaysIn(m, y) ==
    IF m = 2 THEN (IF IsLeap(y) THEN 29 ELSE 28)
    ELSE IF m \in {4, 6, 9, 11} THEN 30 ELSE 31

\* The zero value of time.Time: January 1, year 1, 00:00:00 UTC.
ZeroTime == <<1, 1, 1, 0, 0, 0>>

\* time.Parse with the layout "2006-01-02 15:04:05": [ok, t] with t the
\* instant as <<year, month, day, hour, minute, second>> (UTC).
ParseTime(s) ==
    LET bad == [ok |-> FALSE, t |-> ZeroTime]
        y   == GetYear(s, 1)
        mo  == GetNum(s, y.next + 1, TRUE)
        d   == GetNum(s, mo.next + 1, TRUE)
        h   == GetNum(s, d.next + 1, FALSE)
        mi  == GetNum(s, h.next + 1, TRUE)
        se  == GetNum(s, mi.next + 1, TRUE)
    IN  IF ~(y.ok /\ Lit(s, y.next, "-")) THEN bad
        ELSE IF ~(mo.ok /\ mo.val \in 1..12 /\ Lit(s, mo.next, "-")) THEN bad
        ELSE IF ~(d.ok /\ Lit(s, d.next, " ")) THEN bad
        ELSE IF ~(h.ok /\ h.val < 24 /\ Lit(s, h.next, ":")) THEN bad
        ELSE IF ~(mi.ok /\ mi.val < 60 /\ Lit(s, mi.next, ":")) THEN bad
        ELSE IF ~(se.ok /\ se.val < 60) THEN bad
        ELSE IF se.next # Len(s) + 1 THEN bad
        ELSE IF d.val < 1 \/ d.val > DaysIn(mo.val, y.val) THEN bad
        ELSE [ok |-> TRUE, t |-> <<y.val, mo.val, d.val, h.val, mi.val, se.val>>]

RECURSIVE LexLess(_, _, _)
LexLess(t, u, i) ==
    IF i > Len(t) THEN FALSE
    ELSE IF t[i] # u[i] THEN t[i] < u[i]
    ELSE LexLess(t, u, i + 1)

\* t.After(u)
After(t, u) == LexLess(u, t, 1)

-----------------------------------------------------------------------------
(* regexp.MatchString(k8sQuantitiesReg, s) *)

QuantityNumChars == Digits \cup {"."}
QuantitySuffixChars == {"e", "E", "i", "n", "u", "m", "k", "K", "M", "G", "T", "P"}
SignChars == {"+", "-"}

\* The first position at or after i whose character is not in cs.
RECURSIVE SkipWhile(_, _, _)
SkipWhile(s, i, cs) ==
    IF i <= Len(s) /\ Char(s, i) \in cs THEN SkipWhile(s, i + 1, cs) ELSE i

SkipOpt(s, i, cs) == IF i <= Len(s) /\ Char(s, i) \in cs THEN i + 1 ELSE i

\* Mutant of MatchK8sQuantity: the number may hold digits only.
MatchK8sQuantityDigitsOnly(s) ==
    LET a == SkipOpt(s, 1, SignChars)
        b == SkipWhile(s, a, Digits)
        c == SkipWhile(s, b, QuantitySuffixChars)
        d == SkipOpt(s, c, SignChars)
        e == SkipWhile(s, d, Digits)
    IN  b > a /\ e = Len(s) + 1

\* ^([+-]?[0-9.]+)([eEinumkKMGTP]*[-+]?[0-9]*)$
MatchK8sQuantity(s) ==
    LET a == SkipOpt(s, 1, SignChars)
        b == SkipWhile(s, a, QuantityNumChars)
        c == SkipWhile(s, b, QuantitySuffixChars)
        d == SkipOpt(s, c, SignChars)
        e == SkipWhile(s, d, Digits)
    IN  b > a /\ e = Len(s) + 1

-----------------------------------------------------------------------------
(* json.Unmarshal([]byte(s), &parsedNsAllowList) with a []string target *)

\* The position after the JSON string literal that opens at i, 0 if none.
JsonStringEnd(s, i) ==
    IF ~Lit(s, i, "\"") THEN 0
    ELSE LET j == SkipWhile(s, i + 1, {Char(s, k) : k \in 1..Len(s)} \ {"\"", "\\"})
         IN  IF Lit(s, j, "\"") THEN j + 1 ELSE 0

\* The position after the element (a string, or null, which leaves the
\* element at its zero value) that starts at i, 0 if it is neither.
JsonElemEnd(s, i) ==
    IF i + 3 <= Len(s) /\ SubSeq(s, i, i + 3) = "null" THEN i + 4
    ELSE JsonStringEnd(s, i)

\* Elements separated by commas from i on, closed by "]" at the end of s.
RECURSIVE JsonElems(_, _)
JsonElems(s, i) ==
    LET j == JsonElemEnd(s, i)
    IN  IF j = 0 THEN FALSE
        ELSE IF Lit(s, j, "]") THEN j = Len(s)
        ELSE IF Lit(s, j, ",") THEN JsonElems(s, j + 1)
        ELSE FALSE

\* TRUE iff json.Unmarshal returns a nil error.
UnmarshalStringList(s) ==
    \/ s = "null"
    \/ s = "[]"
    \/ Lit(s, 1, "[") /\ JsonElems(s, 2)

-----------------------------------------------------------------------------
(* Flags: init() registers them with these defaults *)

DefaultFlags ==
    [type |-> "initial", limit |-> 0, option |-> "anp-deny-applied",
     startTime |-> "", endTime |-> "", nsAllowList |-> "",
     rmLabels |-> TRUE, toServices |-> TRUE, executorInstances |-> 1,
     driverCoreRequest |-> "200m", driverMemory |-> "512M",
     executorCoreRequest |-> "200m", executorMemory |-> "512M",
     wait |-> FALSE, endpoint |-> "", useClusterIP |-> FALSE, file |-> ""]

\* The flag values f with those named in g set on the command line.
Override(f, g) == [k \in DOMAIN f |-> IF k \in DOMAIN g THEN g[k] ELSE f[k]]

-----------------------------------------------------------------------------
(* RunE, lines 116-258: validation and argument encoding *)

\* The error text of time.Parse for the value s (the library's message names
\* the value; the rest of its wording is not modelled).
TimeParseError(s) == "parsing time \"" \o s \o "\""

\* The error text of json.Unmarshal (the library's wording is not modelled).
JsonError == "json: cannot unmarshal into Go value of type []string"

ErrType == "recommendation type should be 'initial' or 'subsequent'"
ErrLimit == "limit should be an integer >= 0"
ErrOption ==
    "option of network isolation preference should be \nanp-deny-applied or anp-deny-all or k8s-np"
ErrStartTime(s) ==
    "parsing start-time: " \o TimeParseError(s)
    \o ", start-time should be in \n'YYYY-MM-DD hh:mm:ss' format, for example: 2006-01-02 15:04:05"
ErrEndTime(s) ==
    "parsing end-time: " \o TimeParseError(s)
    \o ", end-time should be in \n'YYYY-MM-DD hh:mm:ss' format, for example: 2006-01-02 15:04:05"
ErrEndAfterStart == "end-time should be after start-time"
ErrNsAllowList ==
    "parsing ns-allow-list: " \o JsonError
    \o ", ns-allow-list should \nbe a list of namespace string, for example: '[\"kube-system\",\"flow-aggregator\",\"flow-visibility\"]'"
ErrExecutorInstances == "executor-instances should be an integer >= 0"
ErrQuantity(name) == name \o " should conform to the Kubernetes convention"

\* SparkResourceArgs{} (lines 90-96, 117)
ZeroSparkResourceArgs ==
    [executorInstances |-> 0, driverCoreRequest |-> "", driverMemory |-> "",
     executorCoreRequest |-> "", executorMemory |-> ""]

\* The locals of RunE when validation starts (lines 116-117).
ValidationStart ==
    [args |-> <<>>, res |-> ZeroSparkResourceArgs, startTimeObj |-> ZeroTime,
     checked |-> <<>>, err |-> NilErr]

Return(v, e) == [v EXCEPT !.err = e]
AppendArgs(v, k, x) == [v EXCEPT !.args = @ \o <<k, x>>]

\* lines 119-126
CheckType(f, v) ==
    IF f.type # "initial" /\ f.type # "subsequent" THEN Return(v, ErrType)
    ELSE AppendArgs(v, "--type", f.type)

\* Mutant of CheckLimit: the range test is missing.
CheckLimitUnchecked(f, v) == AppendArgs(v, "--limit", Itoa(f.limit))

\* lines 128-135
CheckLimit(f, v) ==
    IF f.limit < 0 THEN Return(v, ErrLimit)
    ELSE AppendArgs(v, "--limit", Itoa(f.limit))

\* Mutant of OptionArg: the codes of anp-deny-all and k8s-np are exchanged.
OptionArgExchanged(option) ==
    IF option = "anp-deny-applied" THEN 1
    ELSE IF option = "anp-deny-all" THEN 3
    ELSE IF option = "k8s-np" THEN 2
    ELSE 0

\* lines 141-151: the numeric code of the option, 0 when it is none of the three
OptionArg(option) ==
    IF option = "anp-deny-applied" THEN 1
    ELSE IF option = "anp-deny-all" THEN 2
    ELSE IF option = "k8s-np" THEN 3
    ELSE 0

\* lines 137-152
CheckOption(f, v) ==
    IF OptionArg(f.option) = 0 THEN Return(v, ErrOption)
    ELSE AppendArgs(v, "--option", Itoa(OptionArg(f.option)))

\* lines 154-166
CheckStartTime(f, v) ==
    IF f.startTime = "" THEN v
    ELSE LET r == ParseTime(f.startTime)
         IN  IF ~r.ok THEN Return(v, ErrStartTime(f.startTime))
             ELSE AppendArgs([v EXCEPT !.startTimeObj = r.t],
                             "--start_time", f.startTime)

\* Mutant of EndAfterStart: an end equal to the start is accepted.
EndNotBeforeStart(endTimeObj, startTimeObj) == ~After(startTimeObj, endTimeObj)

\* lines 178-181
EndAfterStart(endTimeObj, startTimeObj) == After(endTimeObj, startTimeObj)

\* Mutant of CheckEndTime: the key is written for an empty end-time too.
CheckEndTimeAppendsEmpty(f, v) ==
    IF f.endTime = "" THEN AppendArgs(v, "--end_time", f.endTime)
    ELSE LET r == ParseTime(f.endTime)
         IN  IF ~r.ok THEN Return(v, ErrEndTime(f.endTime))
             ELSE IF ~EndAfterStart(r.t, v.startTimeObj)
                  THEN Return(v, ErrEndAfterStart)
                  ELSE AppendArgs(v, "--end_time", f.endTime)

\* lines 168-183
CheckEndTime(f, v) ==
    IF f.endTime = "" THEN v
    ELSE LET r == ParseTime(f.endTime)
         IN  IF ~r.ok THEN Return(v, ErrEndTime(f.endTime))
             ELSE IF ~EndAfterStart(r.t, v.startTimeObj)
                  THEN Return(v, ErrEndAfterStart)
                  ELSE AppendArgs(v, "--end_time", f.endTime)

\* Mutant of CheckNsAllowList: the list is passed on without being decoded.
CheckNsAllowListUndecoded(f, v) ==
    IF f.nsAllowList = "" THEN v
    ELSE AppendArgs(v, "--ns_allow_list", f.nsAllowList)

\* lines 185-197
CheckNsAllowList(f, v) ==
    IF f.nsAllowList = "" THEN v
    ELSE IF ~UnmarshalStringList(f.nsAllowList) THEN Return(v, ErrNsAllowList)
    ELSE AppendArgs(v, "--ns_allow_list", f.nsAllowList)

\* lines 199-203
ReadRmLabels(f, v) == AppendArgs(v, "--rm_labels", FormatBool(f.rmLabels))

\* Mutant of ReadToServices: the value of rm-labels is written for to-services.
ReadToServicesFromRmLabels(f, v) ==
    AppendArgs(v, "--to_services", FormatBool(f.rmLabels))

\* lines 205-209
ReadToServices(f, v) == AppendArgs(v, "--to_services", FormatBool(f.toServices))

\* lines 211-218
CheckExecutorInstances(f, v) ==
    IF f.executorInstances < 0 THEN Return(v, ErrExecutorInstances)
    ELSE [v EXCEPT !.res.executorInstances = f.executorInstances]

\* lines 220-228, 230-238, 240-248, 250-258
CheckQuantity(f, v, flag, field) ==
    IF ~MatchK8sQuantity(f[field]) THEN Return(v, ErrQuantity(flag))
    ELSE [v EXCEPT !.res[field] = f[field]]

\* Mutant of ValidationOrder: the limit is checked before the type.
ValidationOrderLimitFirst ==
    <<"limit", "type", "option", "start-time", "end-time", "ns-allow-list",
      "rm-labels", "to-services", "executor-instances", "driver-core-request",
      "driver-memory", "executor-core-request", "executor-memory">>

\* The blocks of lines 119-258 in the order RunE runs them.
ValidationOrder ==
    <<"type", "limit", "option", "start-time", "end-time", "ns-allow-list",
      "rm-labels", "to-services", "executor-instances", "driver-core-request",
      "driver-memory", "executor-core-request", "executor-memory">>

RunBlock(name, f, v) ==
    CASE name = "type" -> CheckType(f, v)
      [] name = "limit" -> CheckLimit(f, v)
      [] name = "option" -> CheckOption(f, v)
      [] name = "start-time" -> CheckStartTime(f, v)
      [] name = "end-time" -> CheckEndTime(f, v)
      [] name = "ns-allow-list" -> CheckNsAllowList(f, v)
      [] name = "rm-labels" -> ReadRmLabels(f, v)
      [] name = "to-services" -> ReadToServices(f, v)
      [] name = "executor-instances" -> CheckExecutorInstances(f, v)
      [] name = "driver-core-request" ->
            CheckQuantity(f, v, name, "driverCoreRequest")
      [] name = "driver-memory" -> CheckQuantity(f, v, name, "driverMemory")
      [] name = "executor-core-request" ->
            CheckQuantity(f, v, name, "executorCoreRequest")
      [] name = "executor-memory" -> CheckQuantity(f, v, name, "executorMemory")

\* The blocks run one after the other; a block that returns an error ends RunE.
RECURSIVE RunBlocks(_, _, _)
RunBlocks(order, f, v) ==
    IF order = <<>> \/ v.err # NilErr THEN v
    ELSE RunBlocks(Tail(order), f,
                   RunBlock(Head(order), f,
                            [v EXCEPT !.checked = Append(@, Head(order))]))

\* lines 116-258
Validation(f) == RunBlocks(ValidationOrder, f, ValidationStart)

-----------------------------------------------------------------------------
(* RunE, lines 260-405: cluster access, build, submit, poll, fetch *)

flowVisibilityNS == "flow-visibility"
sparkImage == "antrea/theia-policy-recommendation:latest"
sparkAppFile == "local:///opt/spark/work-dir/policy_recommendation_job.py"
sparkVersion == "3.1.1"

\* Seconds between two status queries.
statusCheckPollInterval == 5

\* The number of poll intervals in the timeout budget (720 in the program:
\* 60 minutes of 5 seconds; scaled down here).
MaxPolls == 3

\* Seconds after which wait.Poll gives up.
statusCheckPollTimeout == MaxPolls * statusCheckPollInterval

\* wait.ErrWaitTimeout
ErrWaitTimeout == "timed out waiting for the condition"

\* The values uuid.New().String() may return.
UUIDs == {"e998433e-accb", "0b1f7c52-9d3e"}

\* The states the control plane may report for a SparkApplication
\* ("" before the operator has set one).
JobStates ==
    {"", "RUNNING", "UNKNOWN", "COMPLETED", "FAILED", "SUBMISSION_FAILED",
     "FAILING", "INVALIDATING"}

\* Errors of the calls whose failure is decided outside RunE.
ErrKubeConfig == "couldn't resolve kubeconfig"
ErrK8sClient == "couldn't create k8s client using given kubeconfig, invalid configuration"
ErrPreCheck == "can't find the policy-recommendation-spark-operator Pod"
ErrSubmit == "the server could not find the requested resource"
ErrStatusQuery == "the server is currently unable to handle the request"
ErrClickHousePod == "can't find the ClickHouse Pod"
ErrResult == "failed to get recommendation result from ClickHouse"
ErrPortForward == "failed to forward a local port to the ClickHouse service"
ErrStoreConnect == "failed to connect to ClickHouse"

\* The artifacts the store may hold for a job ("" when no row matches).
Artifacts == {"", "kind: NetworkPolicy"}

NoApp == [name |-> ""]

\* Mutant of SparkApplication: the resource name leaves the ID out.
SparkApplicationUnnamed(id, args, f, res) ==
    [name |-> "policy-reco-",
     namespace |-> flowVisibilityNS,
     sparkVersion |-> sparkVersion,
     image |-> sparkImage,
     mainApplicationFile |-> sparkAppFile,
     arguments |-> args,
     driverCoreRequest |-> f.driverCoreRequest,
     driverMemory |-> f.driverMemory,
     executorCoreRequest |-> f.executorCoreRequest,
     executorMemory |-> f.executorMemory,
     executorInstances |-> res.executorInstances]

\* Mutant of SparkApplication: the image tag is taken from the ID.
SparkApplicationStamped(id, args, f, res) ==
    [name |-> "policy-reco-" \o id,
     namespace |-> flowVisibilityNS,
     sparkVersion |-> sparkVersion,
     image |-> sparkImage \o "-" \o id,
     mainApplicationFile |-> sparkAppFile,
     arguments |-> args,
     driverCoreRequest |-> f.driverCoreRequest,
     driverMemory |-> f.driverMemory,
     executorCoreRequest |-> f.executorCoreRequest,
     executorMemory |-> f.executorMemory,
     executorInstances |-> res.executorInstances]

\* lines 281-339
SparkApplication(id, args, f, res) ==
    [name |-> "policy-reco-" \o id,
     namespace |-> flowVisibilityNS,
     sparkVersion |-> sparkVersion,
     image |-> sparkImage,
     mainApplicationFile |-> sparkAppFile,
     arguments |-> args,
     driverCoreRequest |-> f.driverCoreRequest,
     driverMemory |-> f.driverMemory,
     executorCoreRequest |-> f.executorCoreRequest,
     executorMemory |-> f.executorMemory,
     executorInstances |-> res.executorInstances]

\* Mutant of JobFailedError: the message leaves the state out.
JobFailedErrorNoState(state) == "policy recommendation job failed"

\* lines 361-362
JobFailedError(state) == "policy recommendation job failed, state: " \o state

\* Mutant of PollCondition: the success state is misspelt.
PollConditionMisspelt(state, qerr) ==
    IF qerr # NilErr THEN [done |-> FALSE, err |-> qerr]
    ELSE IF state = "COMPLETE" THEN [done |-> TRUE, err |-> NilErr]
    ELSE IF state \in {"FAILED", "SUBMISSION_FAILED", "FAILING", "INVALIDATING"}
         THEN [done |-> FALSE, err |-> JobFailedError(state)]
         ELSE [done |-> FALSE, err |-> NilErr]

\* Mutant of PollCondition: FAILING is missing from the failure states.
PollConditionNoFailing(state, qerr) ==
    IF qerr # NilErr THEN [done |-> FALSE, err |-> qerr]
    ELSE IF state = "COMPLETED" THEN [done |-> TRUE, err |-> NilErr]
    ELSE IF state \in {"FAILED", "SUBMISSION_FAILED", "INVALIDATING"}
         THEN [done |-> FALSE, err |-> JobFailedError(state)]
         ELSE [done |-> FALSE, err |-> NilErr]

\* Mutant of PollCondition: every state but RUNNING and COMPLETED is a failure.
PollConditionOnlyRunning(state, qerr) ==
    IF qerr # NilErr THEN [done |-> FALSE, err |-> qerr]
    ELSE IF state = "COMPLETED" THEN [done |-> TRUE, err |-> NilErr]
    ELSE IF state # "RUNNING"
         THEN [done |-> FALSE, err |-> JobFailedError(state)]
         ELSE [done |-> FALSE, err |-> NilErr]

\* Mutant of PollCondition: the error of the status query is dropped and the
\* query repeated at the next tick.
PollConditionRetriesQuery(state, qerr) ==
    IF qerr # NilErr THEN [done |-> FALSE, err |-> NilErr]
    ELSE IF state = "COMPLETED" THEN [done |-> TRUE, err |-> NilErr]
    ELSE IF state \in {"FAILED", "SUBMISSION_FAILED", "FAILING", "INVALIDATING"}
         THEN [done |-> FALSE, err |-> JobFailedError(state)]
         ELSE [done |-> FALSE, err |-> NilErr]

\* lines 354-365: the condition wait.Poll runs, given what the status query
\* returned; [done, err] are the condition's two results.
PollCondition(state, qerr) ==
    IF qerr # NilErr THEN [done |-> FALSE, err |-> qerr]
    ELSE IF state = "COMPLETED" THEN [done |-> TRUE, err |-> NilErr]
    ELSE IF state \in {"FAILED", "SUBMISSION_FAILED", "FAILING", "INVALIDATING"}
         THEN [done |-> FALSE, err |-> JobFailedError(state)]
         ELSE [done |-> FALSE, err |-> NilErr]

Letters ==
    {Char("abcdefghijklmnopqrstuvwxyzABCDEFGHIJKLMNOPQRSTUVWXYZ", k) : k \in 1..52}

\* url.ParseRequestURI(s) returns a nil error.  The scheme is a letter
\* followed by letters, digits, "+", "-", "." up to the first ":"; without a
\* scheme the value must be an absolute path.  (Host and escape validation
\* are not modelled: the endpoints below have none to fail.)
ParseRequestURI(s) ==
    LET i == SkipWhile(s, 1, Letters \cup Digits \cup {"+", "-", "."})
        hasScheme == /\ i > 1
                     /\ Char(s, 1) \in Letters
                     /\ Lit(s, i, ":")
    IN  /\ s # ""
        /\ ~Lit(s, 1, ":")
        /\ \/ hasScheme
           \/ Lit(s, 1, "/")

\* line 378
ErrEndpoint(endpoint) ==
    "failed to decode input endpoint " \o endpoint \o " into a url, err: parse \""
    \o endpoint \o "\": invalid URI for request"

\* line 402
Confirmation(id) ==
    "Successfully created policy recommendation job with ID " \o id \o "\n"

Call(op, key) == [op |-> op, key |-> key]

-----------------------------------------------------------------------------
(* The fake S3 and SQS clients of the snowflake command tests *)

\* The bucket and queue names of the test tables.
BucketNames == {"existingBucket", "newBucket", "nonExistingBucket"}
QueueNames == {"emptyQueue", "nonEmptyQueue"}

\* Commands run on the fakes between two initialisations.
MaxCalls == 3

bucketExistLog == "S3 bucket already exists"

\* Error() of &s3types.NotFound{} without a message.
ErrNotFound == "NotFound: "

\* ReceiveMessage indexing FakeQueue past its length.
ErrIndexOutOfRange == "panic: runtime error: index out of range [0] with length 0"

HeadBucketNotFound(buckets, name) == ErrNotFound

HeadBucket(buckets, name) ==
    IF name \in buckets THEN NilErr ELSE ErrNotFound

CreateBucket(buckets, name) == buckets \cup {name}

DeleteBucketUnchecked(buckets, name) ==
    [buckets |-> buckets \ {name}, err |-> NilErr]

DeleteBucket(buckets, name) ==
    IF name \notin buckets
    THEN [buckets |-> buckets, err |-> ErrNotFound]
    ELSE [buckets |-> buckets \ {name}, err |-> NilErr]

GetQueueUrl(name) ==
    IF name = "nonEmptyQueue" THEN "nonEmptyQueueUrl" ELSE "emptyQueueUrl"

\* The messages returned for a request of max messages; the loop reads
\* FakeQueue[i] for every i < max and panics when the queue is shorter.
ReceiveMessage(queue, url, max) ==
    IF url # "nonEmptyQueueUrl" THEN [messages |-> <<>>, panic |-> FALSE]
    ELSE IF Len(queue) < max THEN [messages |-> <<>>, panic |-> TRUE]
    ELSE [messages |-> SubSeq(queue, 1, max), panic |-> FALSE]

DeleteMessageAll(queue) == <<>>

DeleteMessage(queue) == IF Len(queue) > 0 THEN Tail(queue) ELSE queue

NoCall ==
    [op |-> "", name |-> "", delete |-> FALSE, err |-> NilErr, buckets |-> {},
     queue |-> <<>>, requests |-> <<>>, out |-> <<>>, n |-> 0]

\* The package variables before any test has initialised them.
NoFakes ==
    /\ FakeBuckets = {}
    /\ FakeQueue = <<>>
    /\ queueName = ""
    /\ buffer = <<>>
    /\ made = {}
    /\ lastCall = NoCall

-----------------------------------------------------------------------------
(* Initial states *)

InitWith(inputs) ==
    /\ \E f \in inputs :
          flags = [p \in Invocations |-> IF p = "inv1" THEN f ELSE DefaultFlags]
    /\ pc = [p \in Invocations |-> IF p = "inv1" THEN "validate" ELSE "idle"]
    /\ recoJobArgs = [p \in Invocations |-> <<>>]
    /\ sparkResourceArgs = [p \in Invocations |-> ZeroSparkResourceArgs]
    /\ checked = [p \in Invocations |-> <<>>]
    /\ recommendationID = [p \in Invocations |-> NoID]
    /\ application = [p \in Invocations |-> NoApp]
    /\ err = [p \in Invocations |-> NilErr]
    /\ observed = [p \in Invocations |-> <<>>]
    /\ calls = [p \in Invocations |-> <<>>]
    /\ elapsed = [p \in Invocations |-> 0]
    /\ pollErr = [p \in Invocations |-> Pending]
    /\ stdout = [p \in Invocations |-> <<>>]
    /\ files = [p \in Invocations |-> <<>>]
    /\ retrieved = [p \in Invocations |-> <<>>]
    /\ tunnel = [p \in Invocations |-> "none"]
    /\ cluster = {}
    /\ NoFakes

\* Command lines for the pipeline: three requests, each with every
\* combination of the wait and retrieval flags.
SampleRequests ==
    {[type |-> "subsequent"],
     [type |-> "initial", limit |-> 10000, option |-> "anp-deny-applied",
      startTime |-> "2022-01-01 00:00:00", endTime |-> "2022-01-31 23:59:59"],
     [limit |-> -1, option |-> "bogus"]}

Endpoints == {"", "tcp://10.96.1.1:9000", "10.96.1.1:9000"}

PipelineInputs ==
    {Override(Override(DefaultFlags, r),
              [wait |-> w, endpoint |-> e, useClusterIP |-> u, file |-> fp]) :
        r \in SampleRequests, w \in BOOLEAN, e \in Endpoints, u \in BOOLEAN,
        fp \in {"", "/tmp/policies.yml"}}

Init == InitWith(PipelineInputs)

-----------------------------------------------------------------------------
(* Actions *)

\* lines 116-258
Validate(p) ==
    /\ pc[p] = "validate"
    /\ LET v == Validation(flags[p])
       IN  /\ recoJobArgs' = [recoJobArgs EXCEPT ![p] = v.args]
           /\ sparkResourceArgs' = [sparkResourceArgs EXCEPT ![p] = v.res]
           /\ checked' = [checked EXCEPT ![p] = v.checked]
           /\ err' = [err EXCEPT ![p] = v.err]
           /\ pc' = [pc EXCEPT ![p] = IF v.err # NilErr THEN "done" ELSE "connect"]
    /\ UNCHANGED <<awsVars, flags, recommendationID, application, observed, calls,
                   elapsed, pollErr, stdout, files, retrieved, tunnel, cluster>>

\* lines 260-272: ResolveKubeConfig, CreateK8sClient, the wait flag
Connect(p) ==
    /\ pc[p] = "connect"
    /\ \E e \in {NilErr, ErrKubeConfig, ErrK8sClient} :
          /\ err' = [err EXCEPT ![p] = e]
          /\ pc' = [pc EXCEPT ![p] = IF e # NilErr THEN "done" ELSE "precheck"]
    /\ UNCHANGED <<awsVars, flags, recoJobArgs, sparkResourceArgs, checked,
                   recommendationID, application, observed, calls, elapsed,
                   pollErr, stdout, files, retrieved, tunnel, cluster>>

\* Mutant of PreCheck: RunE goes on after a failed pre-check.
PreCheckContinues(p) ==
    /\ pc[p] = "precheck"
    /\ \E e \in {NilErr, ErrPreCheck} :
          /\ err' = [err EXCEPT ![p] = e]
          /\ pc' = [pc EXCEPT ![p] = "build"]
    /\ calls' = [calls EXCEPT ![p] = Append(@, Call("precheck", ""))]
    /\ UNCHANGED <<awsVars, flags, recoJobArgs, sparkResourceArgs, checked,
                   recommendationID, application, observed, elapsed, pollErr,
                   stdout, files, retrieved, tunnel, cluster>>

\* lines 274-277: PolicyRecoPreCheck
PreCheck(p) ==
    /\ pc[p] = "precheck"
    /\ \E e \in {NilErr, ErrPreCheck} :
          /\ err' = [err EXCEPT ![p] = e]
          /\ pc' = [pc EXCEPT ![p] = IF e # NilErr THEN "done" ELSE "build"]
    /\ calls' = [calls EXCEPT ![p] = Append(@, Call("precheck", ""))]
    /\ UNCHANGED <<awsVars, flags, recoJobArgs, sparkResourceArgs, checked,
                   recommendationID, application, observed, elapsed, pollErr,
                   stdout, files, retrieved, tunnel, cluster>>

\* uuid.New (line 279): a random version-4 UUID.  The draws of different
\* invocations are taken to differ (a collision of 122 random bits is left
\* out), so the ID drawn for p is one no other invocation holds.
NewUUIDs(p) == UUIDs \ {recommendationID[q] : q \in Invocations \ {p}}

\* lines 279-339
Build(p) ==
    /\ pc[p] = "build"
    /\ \E id \in NewUUIDs(p) :
          LET args == recoJobArgs[p] \o <<"--id", id>>
          IN  /\ recommendationID' = [recommendationID EXCEPT ![p] = id]
              /\ recoJobArgs' = [recoJobArgs EXCEPT ![p] = args]
              /\ application' =
                    [application EXCEPT
                        ![p] = SparkApplication(id, args, flags[p],
                                                sparkResourceArgs[p])]
    /\ pc' = [pc EXCEPT ![p] = "submit"]
    /\ UNCHANGED <<awsVars, flags, sparkResourceArgs, checked, err, observed, calls,
                   elapsed, pollErr, stdout, files, retrieved, tunnel, cluster>>

\* Mutant of Submit: the error of the create call is not returned.
SubmitIgnoresError(p) ==
    /\ pc[p] = "submit"
    /\ calls' = [calls EXCEPT ![p] = Append(@, Call("create", application[p].name))]
    /\ \/ UNCHANGED cluster
       \/ cluster' = cluster \cup {application[p]}
    /\ IF flags[p].wait
       THEN /\ pc' = [pc EXCEPT ![p] = "poll"]
            /\ UNCHANGED stdout
       ELSE /\ stdout' = [stdout EXCEPT
                             ![p] = Append(@, Confirmation(recommendationID[p]))]
            /\ pc' = [pc EXCEPT ![p] = "done"]
    /\ UNCHANGED <<awsVars, flags, recoJobArgs, sparkResourceArgs, checked,
                   recommendationID, application, err, observed, elapsed,
                   pollErr, files, retrieved, tunnel>>

\* Mutant of Submit: the confirmation is printed whatever the wait flag is.
SubmitConfirmsAlways(p) ==
    /\ pc[p] = "submit"
    /\ calls' = [calls EXCEPT ![p] = Append(@, Call("create", application[p].name))]
    /\ \/ /\ err' = [err EXCEPT ![p] = ErrSubmit]
          /\ pc' = [pc EXCEPT ![p] = "done"]
          /\ UNCHANGED <<cluster, stdout>>
       \/ /\ cluster' = cluster \cup {application[p]}
          /\ stdout' = [stdout EXCEPT
                           ![p] = Append(@, Confirmation(recommendationID[p]))]
          /\ pc' = [pc EXCEPT ![p] = IF flags[p].wait THEN "poll" ELSE "done"]
          /\ UNCHANGED err
    /\ UNCHANGED <<awsVars, flags, recoJobArgs, sparkResourceArgs, checked,
                   recommendationID, application, observed, elapsed, pollErr,
                   files, retrieved, tunnel>>

\* Mutant of Submit: without wait, the retrieval options are examined right
\* after the create call.
SubmitExaminesRetrieval(p) ==
    /\ pc[p] = "submit"
    /\ calls' = [calls EXCEPT ![p] = Append(@, Call("create", application[p].name))]
    /\ \/ /\ err' = [err EXCEPT ![p] = ErrSubmit]
          /\ pc' = [pc EXCEPT ![p] = "done"]
          /\ UNCHANGED <<cluster, stdout>>
       \/ /\ cluster' = cluster \cup {application[p]}
          /\ IF flags[p].wait
             THEN /\ pc' = [pc EXCEPT ![p] = "poll"]
                  /\ UNCHANGED stdout
             ELSE /\ stdout' = [stdout EXCEPT
                                   ![p] = Append(@, Confirmation(recommendationID[p]))]
                  /\ pc' = [pc EXCEPT ![p] = "endpoint"]
          /\ UNCHANGED err
    /\ UNCHANGED <<awsVars, flags, recoJobArgs, sparkResourceArgs, checked,
                   recommendationID, application, observed, elapsed, pollErr,
                   files, retrieved, tunnel>>

\* lines 340-352 and 401-404: the create call, then the wait flag
Submit(p) ==
    /\ pc[p] = "submit"
    /\ calls' = [calls EXCEPT ![p] = Append(@, Call("create", application[p].name))]
    /\ \/ /\ err' = [err EXCEPT ![p] = ErrSubmit]
          /\ pc' = [pc EXCEPT ![p] = "done"]
          /\ UNCHANGED <<cluster, stdout>>
       \/ /\ cluster' = cluster \cup {application[p]}
          /\ IF flags[p].wait
             THEN /\ pc' = [pc EXCEPT ![p] = "poll"]
                  /\ UNCHANGED stdout
             ELSE /\ stdout' = [stdout EXCEPT
                                   ![p] = Append(@, Confirmation(recommendationID[p]))]
                  /\ pc' = [pc EXCEPT ![p] = "done"]
          /\ UNCHANGED err
    /\ UNCHANGED <<awsVars, flags, recoJobArgs, sparkResourceArgs, checked,
                   recommendationID, application, observed, elapsed, pollErr,
                   files, retrieved, tunnel>>

\* Mutant of WaitFor: the timeout is not applied.
WaitForEver(r, closed) ==
    IF r.err # NilErr THEN r.err
    ELSE IF r.done THEN NilErr
    ELSE Pending

\* wait.WaitFor, the loop behind wait.Poll (line 353), after one run of the
\* condition with results r: the error, success (a nil error), ErrWaitTimeout
\* when the tick channel is closed, and otherwise Pending (wait for a tick).
WaitFor(r, closed) ==
    IF r.err # NilErr THEN r.err
    ELSE IF r.done THEN NilErr
    ELSE IF closed THEN ErrWaitTimeout
    ELSE Pending

\* Mutant of Query: the status is asked for the job of the first invocation.
QueryFirstJob(p, closed) ==
    \E state \in JobStates, qerr \in {NilErr, ErrStatusQuery} :
       LET w == WaitFor(PollCondition(state, qerr), closed)
       IN  /\ calls' = [calls EXCEPT
                           ![p] = Append(@, Call("status", recommendationID["inv1"]))]
           /\ observed' = [observed EXCEPT
                              ![p] = Append(@, IF qerr # NilErr THEN qerr ELSE state)]
           /\ pollErr' = [pollErr EXCEPT ![p] = w]
           /\ IF w = Pending THEN UNCHANGED <<err, pc>>
              ELSE IF w = NilErr
              THEN /\ pc' = [pc EXCEPT ![p] = "endpoint"]
                   /\ UNCHANGED err
              ELSE /\ err' = [err EXCEPT ![p] = w]
                   /\ pc' = [pc EXCEPT ![p] = "done"]

\* lines 353-369: one run of the condition.  getPolicyRecommendationStatus
\* answers with a state or an error, the condition classifies the answer and
\* RunE returns the error of wait.Poll, if any.
Query(p, closed) ==
    \E state \in JobStates, qerr \in {NilErr, ErrStatusQuery} :
       LET w == WaitFor(PollCondition(state, qerr), closed)
       IN  /\ calls' = [calls EXCEPT ![p] = Append(@, Call("status", recommendationID[p]))]
           /\ observed' = [observed EXCEPT
                              ![p] = Append(@, IF qerr # NilErr THEN qerr ELSE state)]
           /\ pollErr' = [pollErr EXCEPT ![p] = w]
           /\ IF w = Pending THEN UNCHANGED <<err, pc>>
              ELSE IF w = NilErr
              THEN /\ pc' = [pc EXCEPT ![p] = "endpoint"]
                   /\ UNCHANGED err
              ELSE /\ err' = [err EXCEPT ![p] = w]
                   /\ pc' = [pc EXCEPT ![p] = "done"]

\* Mutant of PollTick: as wait.PollImmediate, the first run of the condition
\* does not wait for a tick.
PollTickImmediate(p) ==
    /\ pc[p] = "poll"
    /\ elapsed[p] + statusCheckPollInterval < statusCheckPollTimeout
    /\ elapsed' = [elapsed EXCEPT
                      ![p] = IF observed[p] = <<>> THEN @
                             ELSE @ + statusCheckPollInterval]
    /\ Query(p, FALSE)
    /\ UNCHANGED <<awsVars, flags, recoJobArgs, sparkResourceArgs, checked,
                   recommendationID, application, stdout, files, retrieved, tunnel, cluster>>

\* wait.Poll (line 353): a tick of the interval inside the timeout runs the
\* condition.
PollTick(p) ==
    /\ pc[p] = "poll"
    /\ elapsed[p] + statusCheckPollInterval < statusCheckPollTimeout
    /\ elapsed' = [elapsed EXCEPT ![p] = @ + statusCheckPollInterval]
    /\ Query(p, FALSE)
    /\ UNCHANGED <<awsVars, flags, recoJobArgs, sparkResourceArgs, checked,
                   recommendationID, application, stdout, files, retrieved, tunnel, cluster>>

\* Mutant of PollTimeout: a job whose polling timed out is deleted.
PollTimeoutDeletesJob(p) ==
    /\ pc[p] = "poll"
    /\ elapsed[p] + statusCheckPollInterval >= statusCheckPollTimeout
    /\ elapsed' = [elapsed EXCEPT ![p] = statusCheckPollTimeout]
    /\ Query(p, TRUE)
    /\ cluster' = IF pollErr'[p] = ErrWaitTimeout
                  THEN cluster \ {application[p]} ELSE cluster
    /\ UNCHANGED <<awsVars, flags, recoJobArgs, sparkResourceArgs, checked,
                   recommendationID, application, stdout, files, retrieved, tunnel>>

\* wait.Poll (line 353): the timeout closes the tick channel; the condition
\* runs one last time and, if it is still not done, ErrWaitTimeout is returned.
PollTimeout(p) ==
    /\ pc[p] = "poll"
    /\ elapsed[p] + statusCheckPollInterval >= statusCheckPollTimeout
    /\ elapsed' = [elapsed EXCEPT ![p] = statusCheckPollTimeout]
    /\ Query(p, TRUE)
    /\ UNCHANGED <<awsVars, flags, recoJobArgs, sparkResourceArgs, checked,
                   recommendationID, application, stdout, files, retrieved, tunnel, cluster>>

\* Mutant of CheckEndpoint: the endpoint is not examined.
CheckEndpointSkipped(p) ==
    /\ pc[p] = "endpoint"
    /\ pc' = [pc EXCEPT ![p] = "checkpod"]
    /\ UNCHANGED <<awsVars, flags, recoJobArgs, sparkResourceArgs, checked,
                   recommendationID, application, err, observed, calls, elapsed,
                   pollErr, stdout, files, retrieved, tunnel, cluster>>

\* lines 371-388: the retrieval flags
CheckEndpoint(p) ==
    /\ pc[p] = "endpoint"
    /\ IF flags[p].endpoint # "" /\ ~ParseRequestURI(flags[p].endpoint)
       THEN /\ err' = [err EXCEPT ![p] = ErrEndpoint(flags[p].endpoint)]
            /\ pc' = [pc EXCEPT ![p] = "done"]
       ELSE /\ pc' = [pc EXCEPT ![p] = "checkpod"]
            /\ UNCHANGED err
    /\ UNCHANGED <<awsVars, flags, recoJobArgs, sparkResourceArgs, checked,
                   recommendationID, application, observed, calls, elapsed,
                   pollErr, stdout, files, retrieved, tunnel, cluster>>

\* Mutant of CheckPod: the error of the check is kept but not returned.
CheckPodContinues(p) ==
    /\ pc[p] = "checkpod"
    /\ \E e \in {NilErr, ErrClickHousePod} :
          /\ err' = [err EXCEPT ![p] = e]
          /\ pc' = [pc EXCEPT ![p] = "fetch"]
    /\ calls' = [calls EXCEPT ![p] = Append(@, Call("checkpod", ""))]
    /\ UNCHANGED <<awsVars, flags, recoJobArgs, sparkResourceArgs, checked,
                   recommendationID, application, observed, elapsed, pollErr,
                   stdout, files, retrieved, tunnel, cluster>>

\* lines 389-391: CheckClickHousePod
CheckPod(p) ==
    /\ pc[p] = "checkpod"
    /\ \E e \in {NilErr, ErrClickHousePod} :
          /\ err' = [err EXCEPT ![p] = e]
          /\ pc' = [pc EXCEPT ![p] = IF e # NilErr THEN "done" ELSE "fetch"]
    /\ calls' = [calls EXCEPT ![p] = Append(@, Call("checkpod", ""))]
    /\ UNCHANGED <<awsVars, flags, recoJobArgs, sparkResourceArgs, checked,
                   recommendationID, application, observed, elapsed, pollErr,
                   stdout, files, retrieved, tunnel, cluster>>

\* Mutant of GetResult: the artifact written to the file is returned as well.
GetResultReturnsAlways(filePath, artifact) ==
    IF filePath # "" THEN [recoResult |-> artifact, written |-> <<artifact>>]
    ELSE [recoResult |-> artifact, written |-> <<>>]

\* getPolicyRecommendationResult (called at line 392): the artifact stored for
\* the job goes to the file when a path is given and is returned otherwise.
GetResult(filePath, artifact) ==
    IF filePath # "" THEN [recoResult |-> "", written |-> <<artifact>>]
    ELSE [recoResult |-> artifact, written |-> <<>>]

\* Mutant of ReleaseTunnel: the forwarding is stopped on success only.
ReleaseTunnelOnSuccess(t, e) == IF t = "open" /\ e = NilErr THEN "released" ELSE t

\* getPolicyRecommendationResult (called at line 392): the port forwarding it
\* opened is stopped when it returns, whatever error e it returns.
ReleaseTunnel(t, e) == IF t = "open" THEN "released" ELSE t

\* getPolicyRecommendationResult (called at line 392), first part: unless the
\* cluster IP is to be used, a local port is forwarded to the result store.
OpenTunnel(p) ==
    /\ pc[p] = "fetch"
    /\ ~flags[p].useClusterIP
    /\ tunnel[p] = "none"
    /\ \/ /\ tunnel' = [tunnel EXCEPT ![p] = "open"]
          /\ UNCHANGED <<err, pc>>
       \/ /\ err' = [err EXCEPT ![p] = ErrPortForward]
          /\ pc' = [pc EXCEPT ![p] = "done"]
          /\ UNCHANGED tunnel
    /\ UNCHANGED <<awsVars, flags, recoJobArgs, sparkResourceArgs, checked,
                   recommendationID, application, observed, calls, elapsed,
                   pollErr, stdout, files, retrieved, cluster>>

\* The store is reached directly or through the forwarded port.
Reachable(p) == flags[p].useClusterIP \/ tunnel[p] = "open"

\* Mutant of Fetch: the result returned is not printed.
FetchPrintsNothing(p) ==
    /\ pc[p] = "fetch"
    /\ Reachable(p)
    /\ calls' = [calls EXCEPT ![p] = Append(@, Call("result", recommendationID[p]))]
    /\ \/ \E e \in {ErrStoreConnect, ErrResult} :
             /\ err' = [err EXCEPT ![p] = e]
             /\ UNCHANGED <<files, retrieved>>
       \/ \E artifact \in Artifacts :
             LET r == GetResult(flags[p].file, artifact)
             IN  /\ retrieved' = [retrieved EXCEPT ![p] = Append(@, artifact)]
                 /\ files' = [files EXCEPT ![p] = @ \o r.written]
                 /\ UNCHANGED err
    /\ tunnel' = [tunnel EXCEPT ![p] = ReleaseTunnel(@, err'[p])]
    /\ pc' = [pc EXCEPT ![p] = "done"]
    /\ UNCHANGED <<awsVars, flags, recoJobArgs, sparkResourceArgs, checked,
                   recommendationID, application, observed, elapsed, pollErr,
                   stdout, cluster>>

\* Mutant of Fetch: an empty result is reported as an error.
FetchFailsOnEmpty(p) ==
    /\ pc[p] = "fetch"
    /\ Reachable(p)
    /\ calls' = [calls EXCEPT ![p] = Append(@, Call("result", recommendationID[p]))]
    /\ \/ \E e \in {ErrStoreConnect, ErrResult} :
             /\ err' = [err EXCEPT ![p] = e]
             /\ UNCHANGED <<stdout, files, retrieved>>
       \/ \E artifact \in Artifacts :
             LET r == GetResult(flags[p].file, artifact)
             IN  /\ retrieved' = [retrieved EXCEPT ![p] = Append(@, artifact)]
                 /\ files' = [files EXCEPT ![p] = @ \o r.written]
                 /\ IF r.recoResult # ""
                    THEN /\ stdout' = [stdout EXCEPT ![p] = Append(@, r.recoResult)]
                         /\ UNCHANGED err
                    ELSE /\ err' = [err EXCEPT ![p] = ErrResult]
                         /\ UNCHANGED stdout
    /\ tunnel' = [tunnel EXCEPT ![p] = ReleaseTunnel(@, err'[p])]
    /\ pc' = [pc EXCEPT ![p] = "done"]
    /\ UNCHANGED <<awsVars, flags, recoJobArgs, sparkResourceArgs, checked,
                   recommendationID, application, observed, elapsed, pollErr,
                   cluster>>

\* lines 392-400: the retrieval, over the direct address or the forwarded
\* port, its error returned, and a result that is not empty printed
Fetch(p) ==
    /\ pc[p] = "fetch"
    /\ Reachable(p)
    /\ calls' = [calls EXCEPT ![p] = Append(@, Call("result", recommendationID[p]))]
    /\ \/ \E e \in {ErrStoreConnect, ErrResult} :
             /\ err' = [err EXCEPT ![p] = e]
             /\ UNCHANGED <<stdout, files, retrieved>>
       \/ \E artifact \in Artifacts :
             LET r == GetResult(flags[p].file, artifact)
             IN  /\ retrieved' = [retrieved EXCEPT ![p] = Append(@, artifact)]
                 /\ files' = [files EXCEPT ![p] = @ \o r.written]
                 /\ stdout' = [stdout EXCEPT
                                  ![p] = IF r.recoResult # ""
                                         THEN Append(@, r.recoResult) ELSE @]
                 /\ UNCHANGED err
    /\ tunnel' = [tunnel EXCEPT ![p] = ReleaseTunnel(@, err'[p])]
    /\ pc' = [pc EXCEPT ![p] = "done"]
    /\ UNCHANGED <<awsVars, flags, recoJobArgs, sparkResourceArgs, checked,
                   recommendationID, application, observed, elapsed, pollErr,
                   cluster>>

Next ==
    \E p \in Invocations :
       \/ Validate(p)
       \/ Connect(p)
       \/ PreCheck(p)
       \/ Build(p)
       \/ Submit(p)
       \/ PollTick(p)
       \/ PollTimeout(p)
       \/ CheckEndpoint(p)
       \/ CheckPod(p)
       \/ OpenTunnel(p)
       \/ Fetch(p)

Spec == Init /\ [][Next]_vars

\* The step invocation p can take once its flags are validated.
Proceed(p) ==
    \/ Connect(p)
    \/ PreCheck(p)
    \/ Build(p)
    \/ Submit(p)
    \/ PollTick(p)
    \/ PollTimeout(p)
    \/ CheckEndpoint(p)
    \/ CheckPod(p)
    \/ OpenTunnel(p)
    \/ Fetch(p)

\* RunE is sequential code and the ticks and the timeout of wait.Poll come
\* from timers: an invocation that can proceed does so in the end.
SpecFair == Spec /\ \A p \in Invocations : WF_vars(Proceed(p))

-----------------------------------------------------------------------------
(* The snowflake commands on the fake clients *)

\* No policy-recommendation run is in progress.
InitSnowflake ==
    /\ flags = [p \in Invocations |-> DefaultFlags]
    /\ pc = [p \in Invocations |-> "idle"]
    /\ recoJobArgs = [p \in Invocations |-> <<>>]
    /\ sparkResourceArgs = [p \in Invocations |-> ZeroSparkResourceArgs]
    /\ checked = [p \in Invocations |-> <<>>]
    /\ recommendationID = [p \in Invocations |-> NoID]
    /\ application = [p \in Invocations |-> NoApp]
    /\ err = [p \in Invocations |-> NilErr]
    /\ observed = [p \in Invocations |-> <<>>]
    /\ calls = [p \in Invocations |-> <<>>]
    /\ elapsed = [p \in Invocations |-> 0]
    /\ pollErr = [p \in Invocations |-> Pending]
    /\ stdout = [p \in Invocations |-> <<>>]
    /\ files = [p \in Invocations |-> <<>>]
    /\ retrieved = [p \in Invocations |-> <<>>]
    /\ tunnel = [p \in Invocations |-> "none"]
    /\ cluster = {}
    /\ NoFakes

\* A test case resets its buffer and the fake buckets.
InitFakeBuckets ==
    /\ FakeBuckets' = {"existingBucket"}
    /\ made' = made \cup {"FakeBuckets"}
    /\ buffer' = <<>>
    /\ lastCall' = NoCall
    /\ UNCHANGED <<FakeQueue, queueName, runVars>>

\* A test case resets its buffer and the fake queue for queue name.
InitFakeQueue(name) ==
    /\ FakeQueue' = IF name = "nonEmptyQueue"
                    THEN <<"fake-msg-1", "fake-msg-2">>
                    ELSE <<>>
    /\ queueName' = name
    /\ made' = made \cup {"FakeQueue"}
    /\ buffer' = <<>>
    /\ lastCall' = NoCall
    /\ UNCHANGED <<FakeBuckets, runVars>>

createBucket(name) ==
    /\ "FakeBuckets" \in made
    /\ lastCall.n < MaxCalls
    /\ LET exists == HeadBucket(FakeBuckets, name) = NilErr
           out == IF exists THEN <<bucketExistLog>> ELSE <<>>
       IN  /\ FakeBuckets' = IF exists THEN FakeBuckets
                             ELSE CreateBucket(FakeBuckets, name)
           /\ buffer' = buffer \o out
           /\ lastCall' = [op |-> "createBucket", name |-> name, delete |-> FALSE,
                           err |-> NilErr, buckets |-> FakeBuckets,
                           queue |-> FakeQueue,
                           requests |-> IF exists THEN <<"HeadBucket">>
                                        ELSE <<"HeadBucket", "CreateBucket">>,
                           out |-> out, n |-> lastCall.n + 1]
    /\ UNCHANGED <<FakeQueue, queueName, made, runVars>>

deleteBucket(name) ==
    /\ "FakeBuckets" \in made
    /\ lastCall.n < MaxCalls
    /\ LET r == DeleteBucket(FakeBuckets, name)
       IN  /\ FakeBuckets' = r.buckets
           /\ lastCall' = [op |-> "deleteBucket", name |-> name, delete |-> FALSE,
                           err |-> r.err, buckets |-> FakeBuckets,
                           queue |-> FakeQueue, requests |-> <<"DeleteBucket">>,
                           out |-> <<>>, n |-> lastCall.n + 1]
    /\ UNCHANGED <<FakeQueue, queueName, buffer, made, runVars>>

receiveSQSMessage(delete) ==
    /\ "FakeQueue" \in made
    /\ lastCall.n < MaxCalls
    /\ LET r == ReceiveMessage(FakeQueue, GetQueueUrl(queueName), 1)
           got == ~r.panic /\ r.messages # <<>>
           out == IF got THEN <<r.messages[1] \o "\n">> ELSE <<>>
       IN  /\ FakeQueue' = IF got /\ delete THEN DeleteMessage(FakeQueue)
                           ELSE FakeQueue
           /\ buffer' = buffer \o out
           /\ lastCall' = [op |-> "receiveSQSMessage", name |-> queueName,
                           delete |-> delete,
                           err |-> IF r.panic THEN ErrIndexOutOfRange ELSE NilErr,
                           buckets |-> FakeBuckets, queue |-> FakeQueue,
                           requests |-> <<"GetQueueUrl", "ReceiveMessage">>
                                        \o (IF got /\ delete
                                            THEN <<"DeleteMessage">> ELSE <<>>),
                           out |-> out, n |-> lastCall.n + 1]
    /\ UNCHANGED <<FakeBuckets, queueName, made, runVars>>

NextSnowflake ==
    \/ InitFakeBuckets
    \/ \E name \in QueueNames : InitFakeQueue(name)
    \/ \E name \in BucketNames : createBucket(name)
    \/ \E name \in BucketNames : deleteBucket(name)
    \/ \E delete \in BOOLEAN : receiveSQSMessage(delete)

SpecSnowflake == InitSnowflake /\ [][NextSnowflake]_vars

-----------------------------------------------------------------------------
(* Validation inputs: every combination of the values below, each flag with
   values its check accepts and values it rejects, beside the command lines
   of the pipeline *)

Types == {"initial", "subsequent", "bogus"}
Limits == {-1, 0, 10000}
Options == {"anp-deny-applied", "anp-deny-all", "k8s-np", "bogus"}
StartTimes == {"", "2022-01-01 00:00:00", "2022-01-31 23:59:59", "2022-01-31"}
EndTimes ==
    {"", "0001-01-01 00:00:00", "2022-01-01 00:00:00", "2022-01-31 23:59:59",
     "2022-13-01 00:00:00"}
NsAllowLists == {"", "[\"kube-system\",\"flow-aggregator\"]", "kube-system"}
ExecutorCounts == {-1, 1}
Quantities == {"500m", "1BB"}

ValidationInputs ==
    {Override(DefaultFlags,
              [type |-> t, limit |-> l, option |-> o, startTime |-> st,
               endTime |-> et, nsAllowList |-> ns, executorInstances |-> ei,
               driverCoreRequest |-> dc, driverMemory |-> dm,
               executorCoreRequest |-> ec, executorMemory |-> em]) :
        t \in Types, l \in Limits, o \in Options, st \in StartTimes,
        et \in EndTimes, ns \in NsAllowLists, ei \in ExecutorCounts,
        dc \in Quantities, dm \in Quantities, ec \in Quantities,
        em \in Quantities}

InitInputs == InitWith(ValidationInputs \cup PipelineInputs)

SpecInputs == InitInputs /\ [][Next]_vars

-----------------------------------------------------------------------------
(* Two concurrent invocations of the run command, with and without wait *)

ConcurrentInputs ==
    {Override(DefaultFlags, [wait |-> w]) : w \in BOOLEAN}

InitConcurrent ==
    /\ flags \in [Invocations -> ConcurrentInputs]
    /\ pc = [p \in Invocations |-> "validate"]
    /\ recoJobArgs = [p \in Invocations |-> <<>>]
    /\ sparkResourceArgs = [p \in Invocations |-> ZeroSparkResourceArgs]
    /\ checked = [p \in Invocations |-> <<>>]
    /\ recommendationID = [p \in Invocations |-> NoID]
    /\ application = [p \in Invocations |-> NoApp]
    /\ err = [p \in Invocations |-> NilErr]
    /\ observed = [p \in Invocations |-> <<>>]
    /\ calls = [p \in Invocations |-> <<>>]
    /\ elapsed = [p \in Invocations |-> 0]
    /\ pollErr = [p \in Invocations |-> Pending]
    /\ stdout = [p \in Invocations |-> <<>>]
    /\ files = [p \in Invocations |-> <<>>]
    /\ retrieved = [p \in Invocations |-> <<>>]
    /\ tunnel = [p \in Invocations |-> "none"]
    /\ cluster = {}
    /\ NoFakes

SpecConcurrent == InitConcurrent /\ [][Next]_vars

-----------------------------------------------------------------------------
(* Two invocations of the run command, each with one of two command lines:
   the defaults with wait, and a request that sets every value the job spec
   carries, without wait *)

BuildInputs ==
    {Override(DefaultFlags, [wait |-> TRUE]),
     Override(DefaultFlags,
              [type |-> "subsequent", limit |-> 105, option |-> "k8s-np",
               startTime |-> "2022-01-01 00:00:00",
               endTime |-> "2022-01-31 23:59:59",
               nsAllowList |-> "[\"kube-system\",\"flow-aggregator\"]",
               rmLabels |-> FALSE, executorInstances |-> 2,
               driverCoreRequest |-> "1", driverMemory |-> "1G",
               executorCoreRequest |-> "500m", executorMemory |-> "2Gi"])}

InitBuilds ==
    /\ flags \in [Invocations -> BuildInputs]
    /\ pc = [p \in Invocations |-> "validate"]
    /\ recoJobArgs = [p \in Invocations |-> <<>>]
    /\ sparkResourceArgs = [p \in Invocations |-> ZeroSparkResourceArgs]
    /\ checked = [p \in Invocations |-> <<>>]
    /\ recommendationID = [p \in Invocations |-> NoID]
    /\ application = [p \in Invocations |-> NoApp]
    /\ err = [p \in Invocations |-> NilErr]
    /\ observed = [p \in Invocations |-> <<>>]
    /\ calls = [p \in Invocations |-> <<>>]
    /\ elapsed = [p \in Invocations |-> 0]
    /\ pollErr = [p \in Invocations |-> Pending]
    /\ stdout = [p \in Invocations |-> <<>>]
    /\ files = [p \in Invocations |-> <<>>]
    /\ retrieved = [p \in Invocations |-> <<>>]
    /\ tunnel = [p \in Invocations |-> "none"]
    /\ cluster = {}
    /\ NoFakes

SpecBuilds == InitBuilds /\ [][Next]_vars

-----------------------------------------------------------------------------
(* Round-trip inputs: well-formed command lines that differ in every value
   the argument list encodes, beside the command lines of the pipeline *)

RoundTripLimits == {0, 7, 105, 10000}

RoundTripEndTimes == {"", "2022-01-31 23:59:59", "2022-01-31 9:05:07"}

RoundTripInputs ==
    {Override(DefaultFlags,
              [type |-> t, limit |-> l, option |-> o, startTime |-> st,
               endTime |-> et, nsAllowList |-> ns, rmLabels |-> rm,
               toServices |-> ts]) :
        t \in {"initial", "subsequent"}, l \in RoundTripLimits,
        o \in {"anp-deny-applied", "anp-deny-all", "k8s-np"},
        st \in {"", "2022-01-01 00:00:00"}, et \in RoundTripEndTimes,
        ns \in {"", "[\"kube-system\",\"flow-aggregator\"]"},
        rm \in BOOLEAN, ts \in BOOLEAN}

InitRoundTrip == InitWith(RoundTripInputs \cup PipelineInputs)

SpecRoundTrip == InitRoundTrip /\ [][Next]_vars

-----------------------------------------------------------------------------
(* Format inputs: the resource quantities and namespace lists the checks of
   lines 185-197 and 220-258 are applied to, every other flag at its default,
   beside the command lines of the pipeline *)

QuantitySamples == {"500m", "200m", "0.1", "512M", "1G", "1BB"}

NsAllowListSamples ==
    {"", "[\"kube-system\",\"flow-aggregator\"]", "[\"default\"]", "[]",
     "null", "[null]", "kube-system", "[1]", "{\"ns\":\"default\"}",
     "[\"default\"", "\"default\""}

QuantityInputs ==
    {Override(DefaultFlags,
              [driverCoreRequest |-> dc, driverMemory |-> dm,
               executorCoreRequest |-> ec, executorMemory |-> em]) :
        dc \in QuantitySamples, dm \in QuantitySamples,
        ec \in QuantitySamples, em \in QuantitySamples}

NsAllowListInputs ==
    {Override(DefaultFlags, [nsAllowList |-> ns, type |-> t]) :
        ns \in NsAllowListSamples, t \in Types}

InitFormats == InitWith(QuantityInputs \cup NsAllowListInputs \cup PipelineInputs)

SpecFormats == InitFormats /\ [][Next]_vars

-----------------------------------------------------------------------------
(* Vocabulary of the properties *)

FailureStates == {"FAILED", "SUBMISSION_FAILED", "FAILING", "INVALIDATING"}
TerminalStates == FailureStates \cup {"COMPLETED"}
InProgressStates == JobStates \ TerminalStates

Last(q) == q[Len(q)]

CallsOf(p, op) == {i \in DOMAIN calls[p] : calls[p][i].op = op}
StatusQueries(p) == Cardinality(CallsOf(p, "status"))
Retrievals(p) == Cardinality(CallsOf(p, "result"))

\* The k-th status query of p returned a terminal state and every earlier
\* one returned a state in progress.
FirstTerminalAt(p, k) ==
    /\ k \in DOMAIN observed[p]
    /\ observed[p][k] \in TerminalStates
    /\ \A j \in 1..(k - 1) : observed[p][j] \in InProgressStates

-----------------------------------------------------------------------------
(* Status poller *)

\* C1: with wait enabled, when the first terminal state reported is COMPLETED,
\* at query k, wait.Poll has returned success after exactly k status queries
\* and no further query was issued.
C1_CompletedEndsPollInSuccess ==
    \A p \in Invocations : \A k \in DOMAIN observed[p] :
       (flags[p].wait /\ FirstTerminalAt(p, k) /\ observed[p][k] = "COMPLETED")
       => /\ pollErr[p] = NilErr
          /\ pc[p] # "poll"
          /\ Len(observed[p]) = k
          /\ StatusQueries(p) = k

C1_Witness ==
    \E p \in Invocations :
       /\ observed[p] = <<"RUNNING", "RUNNING", "COMPLETED">>
       /\ pollErr[p] = NilErr
       /\ StatusQueries(p) = 3

\* C2: when the first terminal state reported is a failure state, at query k,
\* the loop has stopped at that query with a failure: exactly k status
\* queries, the invocation ended with an error and no retrieval was attempted.
C2_FailureStateEndsPollInFailure ==
    \A p \in Invocations : \A k \in DOMAIN observed[p] :
       (FirstTerminalAt(p, k) /\ observed[p][k] \in FailureStates)
       => /\ pollErr[p] \notin {Pending, NilErr}
          /\ err[p] = pollErr[p]
          /\ pc[p] = "done"
          /\ Len(observed[p]) = k
          /\ StatusQueries(p) = k
          /\ Retrievals(p) = 0
          /\ CallsOf(p, "checkpod") = {}

C2_Witness ==
    \E p \in Invocations :
       /\ observed[p] = <<"RUNNING", "FAILED">>
       /\ StatusQueries(p) = 2
       /\ pc[p] = "done"
       /\ err[p] # NilErr

\* The polling of p stopped because the last status query returned a
\* failure state.
StoppedOnFailureState(p) ==
    /\ observed[p] # <<>>
    /\ Last(observed[p]) \in FailureStates
    /\ pc[p] = "done"

\* C3 as stated: the failure reported when polling stops on a failure state
\* names both the JobID and the observed state.
C3_FailureNamesJobAndState ==
    \A p \in Invocations :
       StoppedOnFailureState(p)
       => /\ Contains(err[p], recommendationID[p])
          /\ Contains(err[p], Last(observed[p]))

\* C3 amended: the failure reported when polling stops on a failure state
\* names the observed state; the JobID is not part of it.
C3_FailureNamesState ==
    \A p \in Invocations :
       StoppedOnFailureState(p)
       => /\ Contains(err[p], Last(observed[p]))
          /\ ~Contains(err[p], recommendationID[p])

C3_Witness ==
    \E p \in Invocations :
       /\ StoppedOnFailureState(p)
       /\ Last(observed[p]) = "INVALIDATING"
       /\ recommendationID[p] \in UUIDs
       /\ Contains(err[p], "INVALIDATING")

\* C4: when every status query up to the timeout returned a state in
\* progress, wait.Poll has returned the timeout error, which is not the error
\* of any failure state, and no retrieval was attempted.
C4_UnbrokenProgressEndsInTimeout ==
    \A p \in Invocations :
       (/\ elapsed[p] >= statusCheckPollTimeout
        /\ \A j \in DOMAIN observed[p] : observed[p][j] \in InProgressStates)
       => /\ pollErr[p] = ErrWaitTimeout
          /\ err[p] = ErrWaitTimeout
          /\ \A s \in JobStates : err[p] # JobFailedError(s)
          /\ pc[p] = "done"
          /\ StatusQueries(p) = Len(observed[p])
          /\ Retrievals(p) = 0
          /\ CallsOf(p, "checkpod") = {}

C4_Witness ==
    \E p \in Invocations :
       /\ elapsed[p] = statusCheckPollTimeout
       /\ Len(observed[p]) = MaxPolls
       /\ \A j \in DOMAIN observed[p] : observed[p][j] = "RUNNING"
       /\ err[p] = ErrWaitTimeout

\* C5: a state other than COMPLETED and the four failure states never ends
\* the loop: after a query that returned such a state, the loop is still
\* polling, unless that query was the one at the timeout.
C5_OtherStatesKeepPolling ==
    \A p \in Invocations :
       (observed[p] # <<>> /\ Last(observed[p]) \in InProgressStates)
       => \/ pc[p] = "poll" /\ pollErr[p] = Pending /\ err[p] = NilErr
          \/ /\ pollErr[p] = ErrWaitTimeout
             /\ elapsed[p] >= statusCheckPollTimeout

C5_Witness ==
    \E p \in Invocations :
       /\ observed[p] = <<"", "UNKNOWN">>
       /\ pc[p] = "poll"
       /\ pollErr[p] = Pending

-----------------------------------------------------------------------------
(* Pipeline order *)

Range(q) == {q[i] : i \in DOMAIN q}

\* The argument list args carries the value x after the key k.
HasArg(args, k, x) ==
    \E i \in DOMAIN args : i % 2 = 1 /\ args[i] = k /\ args[i + 1] = x

HasKey(args, k) == \E i \in DOMAIN args : i % 2 = 1 /\ args[i] = k

OptionVocabulary == {"anp-deny-applied", "anp-deny-all", "k8s-np"}

QuantityFlags ==
    {"driverCoreRequest", "driverMemory", "executorCoreRequest", "executorMemory"}

\* The command line f is malformed in one of the ways the validator rejects.
Malformed(f) ==
    \/ f.type \notin {"initial", "subsequent"}
    \/ f.limit < 0
    \/ f.option \notin OptionVocabulary
    \/ f.startTime # "" /\ ~ParseTime(f.startTime).ok
    \/ f.endTime # "" /\ ~ParseTime(f.endTime).ok
    \/ /\ f.startTime # "" /\ ParseTime(f.startTime).ok
       /\ f.endTime # "" /\ ParseTime(f.endTime).ok
       /\ ~After(ParseTime(f.endTime).t, ParseTime(f.startTime).t)
    \/ f.nsAllowList # "" /\ ~UnmarshalStringList(f.nsAllowList)
    \/ f.executorInstances < 0
    \/ \E q \in QuantityFlags : ~MatchK8sQuantity(f[q])

\* The stages in pipeline order, by the request each sends.
StageRank(op) ==
    CASE op = "precheck" -> 1
      [] op = "create" -> 2
      [] op = "status" -> 3
      [] op = "checkpod" -> 4
      [] op = "result" -> 5

StageOrder(p) ==
    \* requests are sent in the order of the stages, the job is created once
    /\ \A i, j \in DOMAIN calls[p] :
          i < j => StageRank(calls[p][i].op) <= StageRank(calls[p][j].op)
    /\ Cardinality(CallsOf(p, "create")) <= 1
    \* build and submit only after the whole validation passed
    /\ (recommendationID[p] # NoID \/ CallsOf(p, "create") # {})
          => /\ ~Malformed(flags[p])
             /\ checked[p] = ValidationOrder
             /\ application[p] # NoApp
    \* a status query only after the acknowledged submission
    /\ CallsOf(p, "status") # {}
          => CallsOf(p, "create") # {} /\ application[p] \in cluster
    \* retrieval only after a status query returned COMPLETED
    /\ (CallsOf(p, "checkpod") # {} \/ CallsOf(p, "result") # {})
          => observed[p] # <<>> /\ Last(observed[p]) = "COMPLETED"
    \* an error ends the invocation
    /\ err[p] # NilErr => pc[p] = "done"

\* An invocation that ended runs no further stage.
EndedStaysEnded(p) ==
    pc[p] = "done"
    => /\ pc'[p] = "done"
       /\ calls'[p] = calls[p]
       /\ err'[p] = err[p]
       /\ stdout'[p] = stdout[p]
       /\ files'[p] = files[p]
       /\ recommendationID'[p] = recommendationID[p]
       /\ application'[p] = application[p]

\* C6: the stages run in the order validate, build, submit, poll, fetch, each
\* only after the one before it succeeded, and an error at any stage ends the
\* invocation without running a later stage.
C6_StagesInOrder ==
    /\ [](\A p \in Invocations : StageOrder(p))
    /\ [][\A p \in Invocations : EndedStaysEnded(p)]_vars

C6_Witness ==
    \E p \in Invocations :
       /\ pc[p] = "done"
       /\ err[p] = NilErr
       /\ [i \in DOMAIN calls[p] |-> calls[p][i].op]
             = <<"precheck", "create", "status", "status", "checkpod", "result">>

-----------------------------------------------------------------------------
(* Parameter validator *)

ValidationErrors(f) ==
    {ErrType, ErrLimit, ErrOption, ErrStartTime(f.startTime),
     ErrEndTime(f.endTime), ErrEndAfterStart, ErrNsAllowList,
     ErrExecutorInstances, ErrQuantity("driver-core-request"),
     ErrQuantity("driver-memory"), ErrQuantity("executor-core-request"),
     ErrQuantity("executor-memory")}

\* C7: a malformed command line ends the invocation with a validation error;
\* no JobID is generated, no job spec is built and nothing is sent to the
\* control plane.
C7_MalformedInputIsRejected ==
    \A p \in Invocations :
       Malformed(flags[p])
       => /\ recommendationID[p] = NoID
          /\ application[p] = NoApp
          /\ calls[p] = <<>>
          /\ pc[p] \in {"validate", "done"}
          /\ pc[p] = "done" => err[p] \in ValidationErrors(flags[p])

C7_Witness ==
    \E p \in Invocations :
       /\ flags[p].limit = -1
       /\ ~Malformed([flags[p] EXCEPT !.limit = 0])
       /\ pc[p] = "done"
       /\ err[p] = ErrLimit

\* The checks in the order the validator is said to apply them.
CheckOrder ==
    <<"type", "limit", "option", "start-time", "end-time", "ns-allow-list",
      "executor-instances", "driver-core-request", "driver-memory",
      "executor-core-request", "executor-memory">>

\* The instant the end time is compared with.
StartInstant(f) ==
    IF f.startTime # "" /\ ParseTime(f.startTime).ok
    THEN ParseTime(f.startTime).t ELSE ZeroTime

\* The check named c does not accept the command line f.
Rejects(c, f) ==
    CASE c = "type" -> f.type \notin {"initial", "subsequent"}
      [] c = "limit" -> f.limit < 0
      [] c = "option" -> f.option \notin OptionVocabulary
      [] c = "start-time" -> f.startTime # "" /\ ~ParseTime(f.startTime).ok
      [] c = "end-time" ->
            /\ f.endTime # ""
            /\ \/ ~ParseTime(f.endTime).ok
               \/ ~After(ParseTime(f.endTime).t, StartInstant(f))
      [] c = "ns-allow-list" ->
            f.nsAllowList # "" /\ ~UnmarshalStringList(f.nsAllowList)
      [] c = "executor-instances" -> f.executorInstances < 0
      [] c = "driver-core-request" -> ~MatchK8sQuantity(f.driverCoreRequest)
      [] c = "driver-memory" -> ~MatchK8sQuantity(f.driverMemory)
      [] c = "executor-core-request" -> ~MatchK8sQuantity(f.executorCoreRequest)
      [] c = "executor-memory" -> ~MatchK8sQuantity(f.executorMemory)

\* The error the check named c reports for the command line f.
ErrorOf(c, f) ==
    CASE c = "type" -> ErrType
      [] c = "limit" -> ErrLimit
      [] c = "option" -> ErrOption
      [] c = "start-time" -> ErrStartTime(f.startTime)
      [] c = "end-time" ->
            IF ParseTime(f.endTime).ok THEN ErrEndAfterStart
            ELSE ErrEndTime(f.endTime)
      [] c = "ns-allow-list" -> ErrNsAllowList
      [] c = "executor-instances" -> ErrExecutorInstances
      [] c \in {"driver-core-request", "driver-memory", "executor-core-request",
                "executor-memory"} -> ErrQuantity(c)

RejectedAt(f) == {i \in DOMAIN CheckOrder : Rejects(CheckOrder[i], f)}

FirstRejected(f) == CHOOSE i \in RejectedAt(f) : \A j \in RejectedAt(f) : i <= j

IsCheck(c) == c \in Range(CheckOrder)

\* C8: when checks fail, the error reported is that of the first failing
\* check in the fixed order, whatever else is invalid, and the checks after
\* it are not evaluated.
C8_FirstFailingCheckReported ==
    \A p \in Invocations :
       (pc[p] # "validate" /\ pc[p] # "idle" /\ RejectedAt(flags[p]) # {})
       => LET i == FirstRejected(flags[p])
          IN  /\ pc[p] = "done"
              /\ err[p] = ErrorOf(CheckOrder[i], flags[p])
              /\ SelectSeq(checked[p], IsCheck) = SubSeq(CheckOrder, 1, i)

C8_Witness ==
    \E p \in Invocations :
       /\ pc[p] = "done"
       /\ {CheckOrder[i] : i \in RejectedAt(flags[p])}
             = {"limit", "end-time", "driver-memory", "executor-memory"}
       /\ err[p] = ErrLimit
       /\ checked[p] = <<"type", "limit">>

OptionCode(o) ==
    CASE o = "anp-deny-applied" -> "1"
      [] o = "anp-deny-all" -> "2"
      [] o = "k8s-np" -> "3"

\* C9: an option of the vocabulary is encoded as --option 1, 2 or 3, in the
\* argument list and in the job spec built from it; any other option ends the
\* invocation with a validation error, the option error when the checks
\* before it passed.
C9_OptionCode ==
    \A p \in Invocations :
       LET f == flags[p]
           reached == ~Rejects("type", f) /\ ~Rejects("limit", f)
       IN  pc[p] \notin {"validate", "idle"}
           => /\ (f.option \in OptionVocabulary /\ reached)
                    => /\ HasArg(recoJobArgs[p], "--option", OptionCode(f.option))
                       /\ err[p] # ErrOption
              /\ (f.option \in OptionVocabulary /\ application[p] # NoApp)
                    => HasArg(application[p].arguments, "--option",
                              OptionCode(f.option))
              /\ f.option \notin OptionVocabulary
                    => /\ pc[p] = "done"
                       /\ err[p] \in ValidationErrors(f)
                       /\ reached => err[p] = ErrOption
                       /\ ~HasKey(recoJobArgs[p], "--option")

C9_Witness ==
    \E p \in Invocations :
       /\ flags[p].option = "k8s-np"
       /\ application[p] # NoApp
       /\ HasArg(application[p].arguments, "--option", "3")

\* C10: when start-time and end-time are both given and parse, the end time
\* is accepted and encoded only if it is strictly after the start time; an end
\* equal to or before the start is rejected with the end-after-start error.
C10_EndStrictlyAfterStart ==
    \A p \in Invocations :
       LET f == flags[p]
       IN  (/\ pc[p] \notin {"validate", "idle"}
            /\ \A c \in {"type", "limit", "option"} : ~Rejects(c, f)
            /\ f.startTime # "" /\ ParseTime(f.startTime).ok
            /\ f.endTime # "" /\ ParseTime(f.endTime).ok)
           => IF After(ParseTime(f.endTime).t, ParseTime(f.startTime).t)
              THEN /\ err[p] # ErrEndAfterStart
                   /\ HasArg(recoJobArgs[p], "--end_time", f.endTime)
              ELSE /\ pc[p] = "done"
                   /\ err[p] = ErrEndAfterStart
                   /\ ~HasKey(recoJobArgs[p], "--end_time")

C10_Witness ==
    \E p \in Invocations :
       /\ flags[p].startTime = "2022-01-01 00:00:00"
       /\ flags[p].endTime = flags[p].startTime
       /\ pc[p] = "done"
       /\ err[p] = ErrEndAfterStart


\* C11: the end-after-start check applies only when both bounds are given:
\* with no start-time, every end-time that parses is accepted and encoded as
\* --end_time.
C11_EndAcceptedWithoutStart ==
    \A p \in Invocations :
       LET f == flags[p]
       IN  (/\ pc[p] \notin {"validate", "idle"}
            /\ \A c \in {"type", "limit", "option"} : ~Rejects(c, f)
            /\ f.startTime = ""
            /\ f.endTime # "" /\ ParseTime(f.endTime).ok)
           => /\ err[p] # ErrEndAfterStart
              /\ HasArg(recoJobArgs[p], "--end_time", f.endTime)

\* The flag and the field of each resource quantity, in the order checked.
QuantityParams ==
    <<[flag |-> "driver-core-request", field |-> "driverCoreRequest"],
      [flag |-> "driver-memory", field |-> "driverMemory"],
      [flag |-> "executor-core-request", field |-> "executorCoreRequest"],
      [flag |-> "executor-memory", field |-> "executorMemory"]>>

\* Every character of s from position i to position j is in cs.
AllIn(s, i, j, cs) == \A k \in i..j : Char(s, k) \in cs

\* s is an optional sign and a non-empty run of digits and dots, followed by
\* an optional suffix: unit letters, an optional sign, digits.
QuantityGrammar(s) ==
    \E a \in 0..1, b \in 1..Len(s), c \in 1..Len(s), d \in 1..Len(s) :
       /\ a < b /\ b <= c /\ c <= d /\ d <= c + 1
       /\ AllIn(s, 1, a, SignChars)
       /\ AllIn(s, a + 1, b, QuantityNumChars)
       /\ AllIn(s, b + 1, c, QuantitySuffixChars)
       /\ AllIn(s, c + 1, d, SignChars)
       /\ AllIn(s, d + 1, Len(s), Digits)

\* C12: each of the four resource quantities is accepted iff it matches the
\* grammar number-plus-optional-unit-suffix; "500m", "200m", "0.1", "512M" and
\* "1G" pass, "1BB" fails with the quantity error that names the parameter.
C12_QuantityGrammar ==
    /\ \A s \in {"500m", "200m", "0.1", "512M", "1G"} : QuantityGrammar(s)
    /\ ~QuantityGrammar("1BB")
    /\ \A p \in Invocations :
          LET f == flags[p]
          IN  (/\ pc[p] \notin {"validate", "idle"}
               /\ \A c \in {"type", "limit", "option", "start-time", "end-time",
                            "ns-allow-list", "executor-instances"} :
                     ~Rejects(c, f))
              => \A i \in DOMAIN QuantityParams :
                    LET q == QuantityParams[i]
                    IN  (\A j \in 1..(i - 1) :
                            QuantityGrammar(f[QuantityParams[j].field]))
                        => IF QuantityGrammar(f[q.field])
                           THEN /\ err[p] # ErrQuantity(q.flag)
                                /\ sparkResourceArgs[p][q.field] = f[q.field]
                           ELSE /\ pc[p] = "done"
                                /\ err[p] = ErrQuantity(q.flag)
                                /\ Contains(err[p], q.flag)
                                /\ application[p] = NoApp

C12_Witness ==
    \E p \in Invocations :
       /\ flags[p].driverCoreRequest = "0.1"
       /\ flags[p].driverMemory = "1G"
       /\ flags[p].executorCoreRequest = "1BB"
       /\ flags[p].executorMemory = "512M"
       /\ pc[p] = "done"
       /\ err[p] = ErrQuantity("executor-core-request")
       /\ sparkResourceArgs[p].driverMemory = "1G"

\* C13: --ns_allow_list is among the job arguments iff the ns-allow-list input
\* is non-empty and decodes as a list of strings, and then carries the input
\* verbatim; an empty input adds no argument, and a non-empty input that does
\* not decode is rejected with the ns-allow-list error.
C13_NsAllowListVerbatim ==
    \A p \in Invocations :
       LET f == flags[p]
           decodes == f.nsAllowList # "" /\ UnmarshalStringList(f.nsAllowList)
       IN  (/\ pc[p] \notin {"validate", "idle"}
            /\ \A c \in {"type", "limit", "option", "start-time", "end-time"} :
                  ~Rejects(c, f))
           => /\ HasKey(recoJobArgs[p], "--ns_allow_list") <=> decodes
              /\ decodes => /\ HasArg(recoJobArgs[p], "--ns_allow_list",
                                      f.nsAllowList)
                            /\ err[p] # ErrNsAllowList
              /\ (f.nsAllowList # "" /\ ~decodes)
                    => /\ pc[p] = "done"
                       /\ err[p] = ErrNsAllowList
                       /\ application[p] = NoApp
              /\ f.nsAllowList = "" => err[p] # ErrNsAllowList

C13_Witness ==
    \E p \in Invocations :
       /\ flags[p].nsAllowList = "[\"kube-system\",\"flow-aggregator\"]"
       /\ application[p] # NoApp
       /\ HasArg(application[p].arguments, "--ns_allow_list",
                 "[\"kube-system\",\"flow-aggregator\"]")

\* A namespace list that is not JSON is rejected.
C13_WitnessRejected ==
    \E p \in Invocations :
       /\ flags[p].nsAllowList = "kube-system"
       /\ pc[p] = "done"
       /\ err[p] = ErrNsAllowList

-----------------------------------------------------------------------------
(* The JobID and the outcome of the submission *)

\* The confirmation printed for the job id.
ConfirmationFor(id) ==
    "Successfully created policy recommendation job with ID " \o id \o "\n"

IsConfirmation(line) ==
    Contains(line, "Successfully created policy recommendation job")

\* Every place of invocation p that carries a JobID carries the ID id.
CarriesOnly(p, id) ==
    /\ HasArg(recoJobArgs[p], "--id", id)
    /\ Cardinality({i \in DOMAIN recoJobArgs[p] :
                       i % 2 = 1 /\ recoJobArgs[p][i] = "--id"}) = 1
    /\ application[p].arguments = recoJobArgs[p]
    /\ application[p].name = "policy-reco-" \o id
    /\ \A c \in Range(calls[p]) :
          /\ c.op = "create" => c.key = "policy-reco-" \o id
          /\ c.op \in {"status", "result"} => c.key = id
    /\ \A line \in Range(stdout[p]) :
          IsConfirmation(line) => line = ConfirmationFor(id)

\* Nothing of invocation p carries a JobID yet.
CarriesNone(p) ==
    /\ ~HasKey(recoJobArgs[p], "--id")
    /\ application[p] = NoApp
    /\ \A c \in Range(calls[p]) : c.op \notin {"create", "status", "result"}
    /\ stdout[p] = <<>>

\* C15: within one invocation the JobID is assigned once and never changes,
\* and that one ID is the value of --id, the suffix of the resource name
\* policy-reco-<ID>, the key of every status query, the key of the retrieval
\* and the ID of the confirmation message.
C15_OneJobIDThroughout ==
    /\ [](\A p \in Invocations :
             IF recommendationID[p] = NoID THEN CarriesNone(p)
             ELSE CarriesOnly(p, recommendationID[p]))
    /\ [][\A p \in Invocations :
             recommendationID[p] # NoID
                => recommendationID'[p] = recommendationID[p]]_vars

C15_Witness ==
    \E p \in Invocations :
       /\ recommendationID[p] = "0b1f7c52-9d3e"
       /\ pc[p] = "done" /\ err[p] = NilErr
       /\ StatusQueries(p) >= 2
       /\ Call("result", "0b1f7c52-9d3e") \in Range(calls[p])
       /\ Call("create", "policy-reco-0b1f7c52-9d3e") \in Range(calls[p])

C15_WitnessConfirmation ==
    \E p \in Invocations :
       /\ recommendationID[p] = "e998433e-accb"
       /\ stdout[p] = <<ConfirmationFor("e998433e-accb")>>

TrimSuffix(s, suffix) ==
    IF Len(s) >= Len(suffix) /\ SubSeq(s, Len(s) - Len(suffix) + 1, Len(s)) = suffix
    THEN SubSeq(s, 1, Len(s) - Len(suffix)) ELSE s

\* The text of s after its last space, with the closing newline trimmed
\* (the way the end-to-end test reads the JobID off the output).
LastToken(s) ==
    LET t == TrimSuffix(s, "\n")
        spaces == {i \in 1..Len(t) : Char(t, i) = " "}
        last == IF spaces = {} THEN 0
                ELSE CHOOSE i \in spaces : \A j \in spaces : j <= i
    IN  SubSeq(t, last + 1, Len(t))

\* The create call of invocation p succeeded.
Submitted(p) == CallsOf(p, "create") # {} /\ application[p] \in cluster

\* C16: with wait disabled a successful submission ends the invocation with
\* success, no status query and no retrieval is issued, and the output is the
\* confirmation with the JobID as its last token; with wait enabled the
\* confirmation is never printed and a successful invocation prints nothing
\* but the retrieved artifact.
C16_ConfirmationOnlyWithoutWait ==
    \A p \in Invocations :
       IF ~flags[p].wait
       THEN /\ StatusQueries(p) = 0
            /\ Retrievals(p) = 0
            /\ CallsOf(p, "checkpod") = {}
            /\ Submitted(p)
                  => /\ pc[p] = "done"
                     /\ err[p] = NilErr
                     /\ stdout[p] = <<ConfirmationFor(recommendationID[p])>>
                     /\ LastToken(stdout[p][1]) = recommendationID[p]
            /\ ~Submitted(p) => stdout[p] = <<>>
       ELSE /\ \A line \in Range(stdout[p]) : ~IsConfirmation(line)
            /\ (pc[p] = "done" /\ err[p] = NilErr)
                  => /\ Len(stdout[p]) <= 1
                     /\ Range(stdout[p]) \subseteq Range(retrieved[p])

C16_Witness ==
    \E p \in Invocations :
       /\ ~flags[p].wait
       /\ Submitted(p)
       /\ pc[p] = "done"
       /\ LastToken(stdout[p][1]) = "e998433e-accb"

C16_WitnessWait ==
    \E p \in Invocations :
       /\ flags[p].wait
       /\ pc[p] = "done" /\ err[p] = NilErr
       /\ stdout[p] = <<"kind: NetworkPolicy">>

\* The create call of invocation p was sent and the job was not created.
SubmissionFailed(p) == CallsOf(p, "create") # {} /\ application[p] \notin cluster

\* C17: when the create call returns an error the invocation ends with that
\* error; no status query and no retrieval is issued, no confirmation is
\* printed, and nothing is rolled back (no further request is sent).
C17_SubmissionErrorEndsInvocation ==
    \A p \in Invocations :
       SubmissionFailed(p)
       => /\ pc[p] = "done"
          /\ err[p] = ErrSubmit
          /\ StatusQueries(p) = 0
          /\ Retrievals(p) = 0
          /\ stdout[p] = <<>>
          /\ files[p] = <<>>
          /\ Last(calls[p]).op = "create"
          /\ Cardinality(CallsOf(p, "create")) = 1

C17_Witness ==
    \E p \in Invocations :
       /\ SubmissionFailed(p)
       /\ flags[p].wait
       /\ err[p] = ErrSubmit
       /\ recommendationID[p] # NoID

\* The requests that only read: the pre-check, the status query, the
\* readiness check of the result store and the retrieval.
ReadOps == {"precheck", "status", "checkpod", "result"}

\* Invocation p has sent exactly one create call and otherwise only reads.
OneCreateOnlyReads(p) ==
    /\ Cardinality(CallsOf(p, "create")) = 1
    /\ \A c \in Range(calls[p]) : c.op \in ReadOps \cup {"create"}
    /\ \A i \in DOMAIN calls[p] :
          (\E j \in CallsOf(p, "create") : j < i) => calls[p][i].op \in ReadOps

\* C18: after the submission the invocation only reads the job: on every exit
\* path it has sent exactly one create call and no delete, cancel or update,
\* and a job that was created stays in the cluster unchanged, so a job whose
\* polling timed out can still complete.
C18_OnlyReadsAfterSubmission ==
    /\ [](\A p \in Invocations :
             /\ CallsOf(p, "create") # {} => OneCreateOnlyReads(p)
             /\ (pc[p] \in {"poll", "endpoint", "checkpod", "fetch"}
                 \/ StatusQueries(p) > 0)
                   => application[p] \in cluster)
    /\ [][cluster \subseteq cluster']_vars

C18_Witness ==
    \E p \in Invocations :
       /\ pc[p] = "done"
       /\ err[p] = ErrWaitTimeout
       /\ OneCreateOnlyReads(p)
       /\ application[p] \in cluster

C18_WitnessRetrievalError ==
    \E p \in Invocations :
       /\ pc[p] = "done"
       /\ err[p] = ErrResult
       /\ OneCreateOnlyReads(p)
       /\ application[p] \in cluster

-----------------------------------------------------------------------------
(* The sinks of the retrieved artifact *)

\* The text made of the strings of q, in order.
RECURSIVE Concat(_)
Concat(q) == IF q = <<>> THEN "" ELSE Head(q) \o Concat(Tail(q))

\* Invocation p got the artifact from the result store and returned.
ReachedOutput(p) ==
    /\ pc[p] = "done"
    /\ err[p] = NilErr
    /\ Retrievals(p) = 1
    /\ Len(retrieved[p]) = 1

\* Something was written to the file, printed on the standard output.
FileUsed(p) == files[p] # <<>>
StdoutUsed(p) == stdout[p] # <<>>

\* C19: when a file path is given the standard output receives nothing and
\* the file holds exactly the artifact; when none is given the standard output
\* receives exactly the artifact and no file is written.
C19_SinkExclusivity ==
    \A p \in Invocations :
       ReachedOutput(p)
       => IF flags[p].file # ""
          THEN /\ Concat(stdout[p]) = ""
               /\ files[p] = <<retrieved[p][1]>>
          ELSE /\ Concat(stdout[p]) = retrieved[p][1]
               /\ files[p] = <<>>

C19_Witness ==
    \E p \in Invocations :
       /\ ReachedOutput(p)
       /\ flags[p].file = "/tmp/policies.yml"
       /\ files[p] = <<"kind: NetworkPolicy">>
       /\ stdout[p] = <<>>

C19_WitnessStdout ==
    \E p \in Invocations :
       /\ ReachedOutput(p)
       /\ flags[p].file = ""
       /\ files[p] = <<>>
       /\ stdout[p] = <<"kind: NetworkPolicy">>

\* C20 as stated: every invocation that reaches the output step uses exactly
\* one of the two sinks, the empty artifact included.
C20_ExactlyOneSinkUsed ==
    \A p \in Invocations :
       ReachedOutput(p) => (FileUsed(p) /\ ~StdoutUsed(p)) \/ (~FileUsed(p) /\ StdoutUsed(p))

\* C20: every invocation that reaches the output step uses at most one of the
\* two sinks: the file iff a file path is given, the standard output iff no
\* file path is given and the artifact is not empty; an empty artifact with no
\* file path is neither printed nor written.
C20_AtMostOneSinkUsed ==
    \A p \in Invocations :
       ReachedOutput(p)
       => /\ ~(FileUsed(p) /\ StdoutUsed(p))
          /\ FileUsed(p) <=> flags[p].file # ""
          /\ StdoutUsed(p) <=> (flags[p].file = "" /\ retrieved[p][1] # "")

C20_Witness ==
    \E p \in Invocations :
       /\ ReachedOutput(p)
       /\ flags[p].file = ""
       /\ retrieved[p] = <<"">>
       /\ ~FileUsed(p) /\ ~StdoutUsed(p)

-----------------------------------------------------------------------------
(* The retrieval: its preconditions, its errors and the port forwarding *)

\* C21: when the retrieval finds no stored artifact for the JobID the fetch
\* does not fail: the invocation ends with success and prints nothing.
C21_NoMatchIsSuccess ==
    \A p \in Invocations :
       (Retrievals(p) = 1 /\ retrieved[p] = <<"">>)
       => /\ pc[p] = "done"
          /\ err[p] = NilErr
          /\ stdout[p] = <<>>

C21_Witness ==
    \E p \in Invocations :
       /\ Retrievals(p) = 1
       /\ retrieved[p] = <<"">>
       /\ flags[p].file = ""
       /\ pc[p] = "done"
       /\ err[p] = NilErr

\* The endpoints of the inputs that are no well-formed URL.
MalformedEndpoints == {"10.96.1.1:9000"}

\* C22: with wait set and the job COMPLETED, a clickhouse-endpoint that is not
\* empty and is no well-formed URL ends the invocation with an error before
\* the readiness check and before anything is sent to the result store; an
\* empty endpoint skips the check.
C22_MalformedEndpointRejectedFirst ==
    \A p \in Invocations :
       (flags[p].wait /\ pollErr[p] = NilErr /\ pc[p] # "endpoint")
       => IF flags[p].endpoint \in MalformedEndpoints
          THEN /\ pc[p] = "done"
               /\ err[p] # NilErr
               /\ Contains(err[p], flags[p].endpoint)
               /\ CallsOf(p, "checkpod") = {}
               /\ Retrievals(p) = 0
               /\ tunnel[p] = "none"
               /\ Last(calls[p]).op = "status"
               /\ Last(observed[p]) = "COMPLETED"
          ELSE /\ CallsOf(p, "checkpod") # {} \/ pc[p] = "checkpod"
               /\ \A e \in Endpoints : e # "" => err[p] # ErrEndpoint(e)

C22_Witness ==
    \E p \in Invocations :
       /\ flags[p].wait
       /\ pollErr[p] = NilErr
       /\ flags[p].endpoint = "10.96.1.1:9000"
       /\ pc[p] = "done"
       /\ err[p] = ErrEndpoint("10.96.1.1:9000")

C22_WitnessEmpty ==
    \E p \in Invocations :
       /\ flags[p].wait
       /\ flags[p].endpoint = ""
       /\ Retrievals(p) = 1
       /\ err[p] = NilErr

\* C23: the readiness of the result store is checked after the polling
\* succeeded and before the retrieval: when the check fails the invocation
\* ends with that error and the retrieval is never issued.
C23_ReadinessBeforeRetrieval ==
    \A p \in Invocations :
       /\ Cardinality(CallsOf(p, "checkpod")) <= 1
       /\ \A i \in CallsOf(p, "checkpod") :
             /\ pollErr[p] = NilErr
             /\ \A j \in CallsOf(p, "status") : j < i
             /\ \A j \in CallsOf(p, "result") : i < j
       /\ (Retrievals(p) > 0 \/ tunnel[p] # "none" \/ pc[p] = "fetch")
             => CallsOf(p, "checkpod") # {}
       /\ err[p] = ErrClickHousePod
             => /\ pc[p] = "done"
                /\ Last(calls[p]).op = "checkpod"
                /\ Retrievals(p) = 0
                /\ tunnel[p] = "none"
                /\ stdout[p] = <<>> /\ files[p] = <<>>

C23_Witness ==
    \E p \in Invocations :
       /\ err[p] = ErrClickHousePod
       /\ pc[p] = "done"
       /\ Last(observed[p]) = "COMPLETED"
       /\ Last(calls[p]).op = "checkpod"

C24_WitnessSuccess ==
    \E p \in Invocations :
       /\ ~flags[p].useClusterIP
       /\ pc[p] = "done"
       /\ err[p] = NilErr
       /\ tunnel[p] = "released"

-----------------------------------------------------------------------------
(* Reading the argument list back *)

\* The value that follows the key k in args, "" when the key is absent.
ArgValue(args, k) ==
    IF HasKey(args, k)
    THEN args[(CHOOSE i \in DOMAIN args : i % 2 = 1 /\ args[i] = k) + 1]
    ELSE ""

\* The number the decimal digits of s stand for.
RECURSIVE Atoi(_)
Atoi(s) ==
    IF s = "" THEN 0
    ELSE Atoi(SubSeq(s, 1, Len(s) - 1)) * 10 + DigitVal(Char(s, Len(s)))

OptionOfCode(c) ==
    CASE c = "1" -> "anp-deny-applied"
      [] c = "2" -> "anp-deny-all"
      [] c = "3" -> "k8s-np"
      [] OTHER -> "unknown"

\* The instant a time argument stands for, if one is given.
TimeValue(s) ==
    IF s = "" THEN [given |-> FALSE, t |-> ZeroTime]
    ELSE [given |-> TRUE, t |-> ParseTime(s).t]

\* The logical values the argument list args encodes.
Decoded(args) ==
    [type |-> ArgValue(args, "--type"),
     limit |-> Atoi(ArgValue(args, "--limit")),
     option |-> OptionOfCode(ArgValue(args, "--option")),
     startTime |-> TimeValue(ArgValue(args, "--start_time")),
     endTime |-> TimeValue(ArgValue(args, "--end_time")),
     nsAllowList |-> ArgValue(args, "--ns_allow_list"),
     rmLabels |-> ArgValue(args, "--rm_labels") = "true",
     toServices |-> ArgValue(args, "--to_services") = "true"]

\* The logical values of the command line f.
Logical(f) ==
    [type |-> f.type,
     limit |-> f.limit,
     option |-> f.option,
     startTime |-> TimeValue(f.startTime),
     endTime |-> TimeValue(f.endTime),
     nsAllowList |-> f.nsAllowList,
     rmLabels |-> f.rmLabels,
     toServices |-> f.toServices]

\* C25: round trip: the argument list of every job spec built reads back as
\* the logical values of the input: type, limit, option, start and end time,
\* namespace allow-list, rm-labels and to-services.
C25_ArgumentsRoundTrip ==
    \A p \in Invocations :
       application[p] # NoApp
       => /\ ~Malformed(flags[p])
          /\ AllIn(ArgValue(application[p].arguments, "--limit"), 1,
                   Len(ArgValue(application[p].arguments, "--limit")), Digits)
          /\ \A k \in {"--rm_labels", "--to_services"} :
                ArgValue(application[p].arguments, k) \in {"true", "false"}
          /\ Decoded(application[p].arguments) = Logical(flags[p])

C25_Witness ==
    \E p \in Invocations :
       /\ application[p] # NoApp
       /\ flags[p].limit = 105
       /\ flags[p].option = "anp-deny-all"
       /\ flags[p].endTime = "2022-01-31 9:05:07"
       /\ flags[p].rmLabels /\ ~flags[p].toServices
       /\ Decoded(application[p].arguments).limit = 105
       /\ ~Decoded(application[p].arguments).toServices

-----------------------------------------------------------------------------
(* Concurrent invocations *)

\* Everything invocation p holds.
Local(p) ==
    <<flags[p], pc[p], recoJobArgs[p], sparkResourceArgs[p], checked[p],
      recommendationID[p], application[p], err[p], observed[p], calls[p],
      elapsed[p], pollErr[p], stdout[p], files[p], retrieved[p], tunnel[p]>>

\* What wait.Poll has returned once the status queries were answered with
\* obs, in this order.
PollOutcome(obs) ==
    IF obs = <<>> THEN Pending
    ELSE IF Last(obs) = ErrStatusQuery THEN ErrStatusQuery
    ELSE IF Last(obs) = "COMPLETED" THEN NilErr
    ELSE IF Last(obs) \in FailureStates
    THEN "policy recommendation job failed, state: " \o Last(obs)
    ELSE IF Len(obs) * statusCheckPollInterval >= statusCheckPollTimeout
    THEN ErrWaitTimeout
    ELSE Pending

\* Invocation p asks the control plane and the result store for its own job
\* only, and its poll result follows from the answers it got itself.
OwnJobOnly(p) ==
    /\ \A q \in Invocations \ {p} :
          recommendationID[p] # NoID => recommendationID[p] # recommendationID[q]
    /\ \A c \in Range(calls[p]) :
          /\ c.op \in {"status", "result"} => c.key = recommendationID[p]
          /\ c.op = "create" => c.key = application[p].name
    /\ pollErr[p] = PollOutcome(observed[p])
    /\ pollErr[p] \notin {Pending, NilErr} => err[p] = pollErr[p]

-----------------------------------------------------------------------------
(* Termination *)

\* The results wait.Poll can end with.
PollResults ==
    {NilErr, ErrStatusQuery, ErrWaitTimeout}
       \cup {"policy recommendation job failed, state: " \o s : s \in FailureStates}

\* C27: every invocation with wait set terminates, whatever states the
\* control plane reports: the polling takes no more queries than fit in the
\* timeout and ends in success, a failure-state error, a status-query error or
\* the timeout.
C27_WaitTerminates ==
    /\ [](\A p \in Invocations :
             /\ StatusQueries(p) * statusCheckPollInterval <= statusCheckPollTimeout
             /\ pc[p] = "poll" <=> (StatusQueries(p) < MaxPolls /\ Submitted(p)
                                    /\ flags[p].wait /\ pollErr[p] = Pending)
             /\ pollErr[p] # Pending => pollErr[p] \in PollResults)
    /\ \A p \in Invocations :
          [](pc[p] = "poll" => <>(pc[p] # "poll" /\ pollErr[p] \in PollResults))
    /\ \A p \in Invocations :
          []((flags[p].wait /\ pc[p] \notin {"idle", "validate"})
                => <>(pc[p] = "done"))

C27_Witness ==
    \E p \in Invocations :
       /\ flags[p].wait
       /\ pc[p] = "done"
       /\ pollErr[p] = ErrWaitTimeout
       /\ StatusQueries(p) = MaxPolls

-----------------------------------------------------------------------------
(* The snowflake commands *)

Ran(op) == lastCall.op = op

\* C28: createBucket returns no error and the named bucket exists afterwards;
\* when the bucket did not exist the set of buckets grows by exactly that
\* one bucket through a create request and nothing is logged about an
\* existing bucket; when it did exist the set is unchanged, 'S3 bucket already
\* exists' is logged and no create request is sent.
C28_CreateBucketIdempotent ==
    Ran("createBucket") =>
        /\ lastCall.err = NilErr
        /\ lastCall.name \in FakeBuckets
        /\ IF lastCall.name \in lastCall.buckets
           THEN /\ FakeBuckets = lastCall.buckets
                /\ bucketExistLog \in Range(lastCall.out)
                /\ "CreateBucket" \notin Range(lastCall.requests)
           ELSE /\ FakeBuckets = lastCall.buckets \cup {lastCall.name}
                /\ Cardinality(FakeBuckets) = Cardinality(lastCall.buckets) + 1
                /\ bucketExistLog \notin Range(lastCall.out)
                /\ lastCall.requests = <<"HeadBucket", "CreateBucket">>

\* createBucket has run on a bucket that existed, after an earlier command.
C28_Witness ==
    /\ Ran("createBucket")
    /\ lastCall.n >= 2
    /\ lastCall.name \in lastCall.buckets
    /\ bucketExistLog \in Range(buffer)

\* createBucket has created a bucket beside one that was there.
C28_WitnessNew ==
    /\ Ran("createBucket")
    /\ lastCall.name = "newBucket"
    /\ lastCall.buckets = {"existingBucket"}
    /\ FakeBuckets = {"existingBucket", "newBucket"}

\* C29: deleteBucket on a bucket that exists returns no error and removes
\* that bucket and no other; on a bucket that does not exist it returns an
\* error and leaves the set of buckets as it was.
C29_DeleteBucket ==
    Ran("deleteBucket") =>
        IF lastCall.name \in lastCall.buckets
        THEN /\ lastCall.err = NilErr
             /\ FakeBuckets = lastCall.buckets \ {lastCall.name}
             /\ Cardinality(FakeBuckets) = Cardinality(lastCall.buckets) - 1
        ELSE /\ lastCall.err # NilErr
             /\ FakeBuckets = lastCall.buckets

\* deleteBucket has failed on a bucket that does not exist while another
\* bucket does.
C29_Witness ==
    /\ Ran("deleteBucket")
    /\ lastCall.name = "nonExistingBucket"
    /\ lastCall.err = ErrNotFound
    /\ FakeBuckets = {"existingBucket"}

\* deleteBucket has removed one of two buckets.
C29_WitnessRemoved ==
    /\ Ran("deleteBucket")
    /\ lastCall.err = NilErr
    /\ lastCall.buckets = {"existingBucket", "newBucket"}
    /\ FakeBuckets = {"newBucket"}

\* C30: receiveSQSMessage prints the body of the first message of the queue
\* once, and nothing when the queue is empty; with delete the queue afterwards
\* is the queue before without its first message, without delete the queue is
\* unchanged, and an empty queue stays empty.
C30_ReceiveSQSMessage ==
    Ran("receiveSQSMessage") =>
        IF lastCall.queue = <<>>
        THEN /\ lastCall.out = <<>>
             /\ FakeQueue = <<>>
        ELSE /\ lastCall.out = <<Head(lastCall.queue) \o "\n">>
             /\ IF lastCall.delete
                THEN /\ FakeQueue = Tail(lastCall.queue)
                     /\ Len(FakeQueue) = Len(lastCall.queue) - 1
                ELSE FakeQueue = lastCall.queue

\* The first of two messages has been printed and removed.
C30_Witness ==
    /\ Ran("receiveSQSMessage")
    /\ lastCall.delete
    /\ lastCall.queue = <<"fake-msg-1", "fake-msg-2">>
    /\ buffer = <<"fake-msg-1\n">>
    /\ FakeQueue = <<"fake-msg-2">>

\* The first message has been printed twice by two receptions without delete.
C30_WitnessKept ==
    /\ Ran("receiveSQSMessage")
    /\ ~lastCall.delete
    /\ buffer = <<"fake-msg-1\n", "fake-msg-1\n">>
    /\ Len(FakeQueue) = 2

\* Nothing has been received from the empty queue.
C30_WitnessEmpty ==
    /\ Ran("receiveSQSMessage")
    /\ lastCall.name = "emptyQueue"
    /\ lastCall.err = NilErr
    /\ buffer = <<>>
    /\ FakeQueue = <<>>

\* The reception from a queue that earlier receptions emptied ends in the
\* fake's panic, with nothing printed.
C30_WitnessDrained ==
    /\ Ran("receiveSQSMessage")
    /\ lastCall.name = "nonEmptyQueue"
    /\ lastCall.queue = <<>>
    /\ lastCall.err = ErrIndexOutOfRange


-----------------------------------------------------------------------------
(* The argument list of the job spec *)

KeyOrder ==
    <<"--type", "--limit", "--option", "--start_time", "--end_time",
      "--ns_allow_list", "--rm_labels", "--to_services", "--id">>

\* The keys of a flat key/value list, in order.
Keys(args) == [i \in 1..(Len(args) \div 2) |-> args[2 * i - 1]]

KeyRank(k) == CHOOSE i \in DOMAIN KeyOrder : KeyOrder[i] = k

\* The list is made of pairs whose keys follow KeyOrder, none of them twice.
FlatInOrder(args) ==
    /\ Len(args) % 2 = 0
    /\ \A i \in DOMAIN Keys(args) : Keys(args)[i] \in Range(KeyOrder)
    /\ \A i, j \in DOMAIN Keys(args) :
          i < j => KeyRank(Keys(args)[i]) < KeyRank(Keys(args)[j])

ExampleRequest ==
    [type |-> "initial", limit |-> 10000, option |-> "anp-deny-applied",
     startTime |-> "2022-01-01 00:00:00", endTime |-> "2022-01-31 23:59:59"]

IsExample(f) == \A k \in DOMAIN ExampleRequest : f[k] = ExampleRequest[k]

\* C31: the arguments of every job spec built are a flat list of key/value
\* pairs in the order --type, --limit, --option, --start_time, --end_time,
\* --ns_allow_list, --rm_labels, --to_services, --id, no key twice; the three
\* optional keys are present exactly when their input is not empty and the
\* others always; and for type initial, limit 10000, option anp-deny-applied
\* with the start and end of January 2022 the list begins --type initial
\* --limit 10000 --option 1 --start_time <start> --end_time <end>.
C31_ArgumentsFlatInOrder ==
    \A p \in Invocations :
       application[p] # NoApp
       => LET args == application[p].arguments
          IN  /\ FlatInOrder(args)
              /\ \A k \in {"--type", "--limit", "--option", "--rm_labels",
                           "--to_services", "--id"} : HasKey(args, k)
              /\ HasKey(args, "--start_time") <=> flags[p].startTime # ""
              /\ HasKey(args, "--end_time") <=> flags[p].endTime # ""
              /\ HasKey(args, "--ns_allow_list") <=> flags[p].nsAllowList # ""
              /\ IsExample(flags[p])
                 => SubSeq(args, 1, 10) =
                       <<"--type", "initial", "--limit", "10000", "--option", "1",
                         "--start_time", "2022-01-01 00:00:00",
                         "--end_time", "2022-01-31 23:59:59">>

\* A job spec has been built for the example request.
C31_Witness ==
    \E p \in Invocations :
       /\ application[p] # NoApp
       /\ IsExample(flags[p])
       /\ Len(application[p].arguments) = 16

\* A job spec has been built with the allow-list and without the two times.
C31_WitnessOptional ==
    \E p \in Invocations :
       /\ application[p] # NoApp
       /\ flags[p].startTime = "" /\ flags[p].endTime = ""
       /\ flags[p].nsAllowList # ""
       /\ Keys(application[p].arguments) =
             <<"--type", "--limit", "--option", "--ns_allow_list", "--rm_labels",
               "--to_services", "--id">>


-----------------------------------------------------------------------------
(* Two builds from the same parameters *)

\* The flags the job spec is built from.
BuildFlags ==
    {"type", "limit", "option", "startTime", "endTime", "nsAllowList",
     "rmLabels", "toServices", "executorInstances", "driverCoreRequest",
     "driverMemory", "executorCoreRequest", "executorMemory"}

SameParameters(f, g) == \A k \in BuildFlags : f[k] = g[k]

\* The list with the value of --id blanked.
WithoutID(args) ==
    [i \in DOMAIN args |->
        IF i % 2 = 0 /\ args[i - 1] = "--id" THEN "" ELSE args[i]]

\* The job spec without what carries the JobID: the resource name and the
\* value of --id.
ApartFromID(app) ==
    [app EXCEPT !.name = "", !.arguments = WithoutID(@)]

\* C32: two job specs built from the same validated parameters are equal in
\* every field (arguments, driver and executor core and memory requests,
\* executor instances, image, namespace, and the rest) once the resource name
\* and the value of --id are left out.
C32_BuildDeterministicApartFromID ==
    \A p, q \in Invocations :
       (/\ application[p] # NoApp
        /\ application[q] # NoApp
        /\ SameParameters(flags[p], flags[q]))
       => ApartFromID(application[p]) = ApartFromID(application[q])

\* Two job specs with different IDs have been built from the request that
\* sets every value.
C32_Witness ==
    /\ application["inv1"] # NoApp
    /\ application["inv2"] # NoApp
    /\ SameParameters(flags["inv1"], flags["inv2"])
    /\ flags["inv1"].executorMemory = "2Gi"
    /\ application["inv1"].name # application["inv2"].name
    /\ ArgValue(application["inv1"].arguments, "--id")
          # ArgValue(application["inv2"].arguments, "--id")
    /\ application["inv1"].executorInstances = 2


-----------------------------------------------------------------------------
(* A status query that fails *)

QueryFailed(p) == ErrStatusQuery \in Range(observed[p])

\* C33: when a status query returned an error, that query is the last request
\* of the invocation: the loop has stopped there, the invocation has ended
\* with that very error, which is neither the timeout error nor the error of
\* a failure state, no further status query follows and no readiness check or
\* retrieval is attempted.
C33_QueryErrorEndsInvocation ==
    /\ [](\A p \in Invocations :
          QueryFailed(p)
          => /\ \A j \in DOMAIN observed[p] :
                   observed[p][j] = ErrStatusQuery <=> j = Len(observed[p])
             /\ StatusQueries(p) = Len(observed[p])
             /\ Last(calls[p]).op = "status"
             /\ pollErr[p] = ErrStatusQuery
             /\ err[p] = ErrStatusQuery
             /\ err[p] # ErrWaitTimeout
             /\ \A s \in JobStates : err[p] # JobFailedError(s)
             /\ pc[p] = "done"
             /\ Retrievals(p) = 0
             /\ CallsOf(p, "checkpod") = {}
             /\ retrieved[p] = <<>> /\ stdout[p] = <<>> /\ files[p] = <<>>)
    /\ [][\A p \in Invocations :
             QueryFailed(p) => calls'[p] = calls[p] /\ err'[p] = err[p]]_vars

\* The second status query failed after a first that returned RUNNING.
C33_Witness ==
    \E p \in Invocations :
       /\ observed[p] = <<"RUNNING", ErrStatusQuery>>
       /\ err[p] = ErrStatusQuery
       /\ pc[p] = "done"

\* The query run when the timeout expired failed.
C33_WitnessAtTimeout ==
    \E p \in Invocations :
       /\ Len(observed[p]) = MaxPolls
       /\ elapsed[p] = statusCheckPollTimeout
       /\ Last(observed[p]) = ErrStatusQuery
       /\ err[p] = ErrStatusQuery


-----------------------------------------------------------------------------
(* The times of the status queries *)

C34_WitnessThird ==
    \E p \in Invocations :
       /\ StatusQueries(p) = 3
       /\ elapsed[p] = 3 * statusCheckPollInterval


-----------------------------------------------------------------------------
(* A pre-check that fails *)

PreCheckFailed(p) ==
    /\ calls[p] # <<>>
    /\ Last(calls[p]).op = "precheck"
    /\ err[p] = ErrPreCheck

\* C35: when the pre-check of the cluster, run after the whole validation,
\* fails, the invocation has ended with the pre-check's error: no JobID was
\* generated, no job spec built, no create call sent and no job is in the
\* cluster for it; and nothing of the invocation changes afterwards.
C35_PreCheckFailureEndsBeforeBuild ==
    /\ [](\A p \in Invocations :
             /\ err[p] = ErrPreCheck => PreCheckFailed(p)
             /\ PreCheckFailed(p)
                => /\ pc[p] = "done"
                   /\ checked[p] = ValidationOrder
                   /\ recommendationID[p] = NoID
                   /\ ~HasKey(recoJobArgs[p], "--id")
                   /\ application[p] = NoApp
                   /\ CallsOf(p, "create") = {}
                   /\ \A a \in cluster : a.arguments # recoJobArgs[p]
                   /\ stdout[p] = <<>>)
    /\ [][\A p \in Invocations :
             PreCheckFailed(p)
             => /\ calls'[p] = calls[p]
                /\ recommendationID'[p] = NoID
                /\ application'[p] = NoApp
                /\ err'[p] = err[p]]_vars

\* The pre-check has failed on a command line that passed validation.
C35_Witness ==
    \E p \in Invocations :
       /\ PreCheckFailed(p)
       /\ pc[p] = "done"
       /\ recoJobArgs[p] # <<>>
       /\ cluster = {}


-----------------------------------------------------------------------------
(* When the retrieval options are examined *)

\* The positions of RunE from the examination of the retrieval options on.
RetrievalStages == {"endpoint", "checkpod", "fetch"}

EndpointRejected(p) == err[p] = ErrEndpoint(flags[p].endpoint)

\* C36: RunE examines the retrieval options (clickhouse-endpoint,
\* use-cluster-ip, file) only with wait enabled and after a status query
\* returned COMPLETED.  So a malformed clickhouse-endpoint never fails an
\* invocation without wait; with wait it is reported only once the job was
\* created and seen COMPLETED, and the job stays in the cluster.
C36_RetrievalOptionsExaminedAfterCompleted ==
    /\ [](\A p \in Invocations :
             /\ (pc[p] \in RetrievalStages \/ EndpointRejected(p))
                => /\ flags[p].wait
                   /\ Submitted(p)
                   /\ observed[p] # <<>>
                   /\ Last(observed[p]) = "COMPLETED"
                   /\ pollErr[p] = NilErr
             /\ ~flags[p].wait
                => /\ ~EndpointRejected(p)
                   /\ CallsOf(p, "checkpod") = {}
                   /\ Retrievals(p) = 0
             /\ EndpointRejected(p)
                => /\ pc[p] = "done"
                   /\ ~ParseRequestURI(flags[p].endpoint)
                   /\ application[p] \in cluster
                   /\ Last(calls[p]).op = "status"
                   /\ stdout[p] = <<>> /\ files[p] = <<>>)
    /\ [][cluster \subseteq cluster']_vars

\* Without wait, an invocation with a malformed endpoint has ended in success.
C36_Witness ==
    \E p \in Invocations :
       /\ ~flags[p].wait
       /\ flags[p].endpoint \in MalformedEndpoints
       /\ pc[p] = "done"
       /\ err[p] = NilErr
       /\ Submitted(p)
       /\ stdout[p] = <<Confirmation(recommendationID[p])>>

\* With wait, the malformed endpoint has been reported after the job was
\* created and completed; the job is still there.
C36_WitnessWait ==
    \E p \in Invocations :
       /\ flags[p].wait
       /\ EndpointRejected(p)
       /\ Last(observed[p]) = "COMPLETED"
       /\ application[p] \in cluster

=============================================================================
